---- MODULE Spec2Model ----
(***************************************************************************)
(* Sub-network masking of a Llama supernet (src/src/llama.py and           *)
(* src/src/model_wrapper/mask/mask_llama.py) and the parameter estimator   *)
(* (src/src/estimate_efficency.py).                                        *)
(*                                                                         *)
(* A model is a stack of decoder layers.  Tensors are modelled with batch  *)
(* size 1 and sequence length 1, i.e. as tuples of integers over the last  *)
(* (feature) dimension.  A forward hook is a record held by the module it  *)
(* is registered on; a handle is the hook's id.                            *)
(***************************************************************************)
EXTENDS Integers, Sequences, FiniteSets, TLC

VARIABLES
    arch,       \* the loaded model's configuration (immutable)
    weights,    \* the model's parameters, per layer and projection
    hooks,      \* the hooks currently registered on the model's modules
    handles,    \* the wrapper's attribute self.handles ("None" or a list of ids)
    inMasks,    \* the mask pair a direct caller of the masking engine holds
    returned,   \* the handle list the last direct engine call returned
    nextId,     \* the next hook id torch hands out
    ncalls,     \* number of install calls made so far
    lastOp,     \* the operation that produced this state and its outcome
    fwd,        \* the result of the last forward pass
    est,        \* the estimator's last call: its inputs and its result
    run,        \* a run of a training script: its arguments and its progress
    libCall     \* the last call of a loss or validation function and its outcome

vars == <<arch, weights, hooks, handles, inMasks, returned, nextId, ncalls, lastOp, fwd, est, run, libCall>>

\* ---------------------------------------------------------------- bounds
\* install calls a wrapper's caller makes / a direct engine caller makes
MaxCalls == 2

MaxEngineCalls == 1

\* estimator inputs: layers, heads or units per layer, hidden size, head size
MaxEstLayers == 2

MaxEstWidth == 2

MaxEstHidden == 3

MaxEstHeadDim == 2

\* estimator input: sequence length
MaxSeqLen == 2

\* batches a training script iterates over (epochs times batches per epoch)
MaxTrainSteps == 2

\* backward passes one call of a training strategy makes
MaxBackwardPasses == 3

\* distillation temperatures
MaxTemperature == 3

\* ---------------------------------------------------------------- helpers
Range(s) == {s[i] : i \in DOMAIN s}

RECURSIVE SumSeq(_)
SumSeq(s) == IF s = <<>> THEN 0 ELSE s[1] + SumSeq(Tail(s))

Min(a, b) == IF a < b THEN a ELSE b

\* the tuple of the first n values of a function on 1..n
AsSeq(f, n) == SubSeq(f, 1, n)

Const(n, v) == AsSeq([j \in 1..n |-> v], n)

\* all 0/1 rows of length n
Rows(n) == [1..n -> {0, 1}]

\* ---------------------------------------------------------------- the model
\* The architectures the model can be loaded with: standard multi-head
\* attention with a feed-forward wider than the hidden size (as every Llama
\* checkpoint has), and grouped-query attention with two query heads per
\* key/value head.
Archs ==
    { [num_hidden_layers |-> 2, num_attention_heads |-> 2, num_key_value_heads |-> 2,
       head_dim |-> 1, hidden_size |-> 2, intermediate_size |-> 3],
      [num_hidden_layers |-> 2, num_attention_heads |-> 4, num_key_value_heads |-> 2,
       head_dim |-> 1, hidden_size |-> 4, intermediate_size |-> 2] }

Layers(a) == 1..a.num_hidden_layers

\* The parameters of the model: one scalar per projection and layer.
InitWeights(a) ==
    [l \in Layers(a) |->
        [q_proj |-> 1, k_proj |-> 1, v_proj |-> 2, o_proj |-> 1,
         gate_proj |-> 1, up_proj |-> 2, down_proj |-> 1]]

\* The inputs of a forward pass (the hidden state entering the first layer).
Inputs(a) == { [j \in 1..a.hidden_size |-> j], [j \in 1..a.hidden_size |-> 1] }

\* ---------------------------------------------------------------- search space
\* config_to_mask: first-N prefix selection of layers, heads and units.
config_to_mask(a, cfg) ==
    [head_mask |->
        [l \in Layers(a) |->
            [h \in 1..a.num_attention_heads |->
                IF l <= cfg.num_layers /\ h <= cfg.num_heads THEN 1 ELSE 0]],
     ffn_mask |->
        [l \in Layers(a) |->
            [u \in 1..a.intermediate_size |->
                IF l <= cfg.num_layers /\ u <= cfg.num_units THEN 1 ELSE 0]]]

\* config_to_mask fails when a requested value exceeds the architecture's
\* layer, head or unit capacity.
ConfigOutOfRange(a, cfg) ==
    \/ cfg.num_layers > a.num_hidden_layers
    \/ cfg.num_heads > a.num_attention_heads
    \/ cfg.num_units > a.intermediate_size

\* The sub-network configurations a caller selects.
Configs(a) ==
    [num_layers : 1..a.num_hidden_layers,
     num_heads  : 1..a.num_attention_heads,
     num_units  : 1..a.intermediate_size]

FullConfig(a) ==
    [num_layers |-> a.num_hidden_layers, num_heads |-> a.num_attention_heads,
     num_units |-> a.intermediate_size]

\* ---------------------------------------------------------------- hooks
\* A registered hook.  rows is the two-dimensional mask a closure of the
\* wrapper's engine captures; mask is the one-dimensional mask a closure of
\* the model_wrapper engine captures.
Hook(id, call, layer, target, kind, rows, mask) ==
    [id |-> id, call |-> call, layer |-> layer, target |-> target,
     kind |-> kind, rows |-> rows, mask |-> mask]

HookIds(H) == {h.id : h \in H}

\* handle.remove() for every handle of a list
RemoveHandles(H, hs) == {h \in H : h.id \notin Range(hs)}

\* llama.py mask_llama(model, ffn_mask, head_mask): one attention hook and one
\* feed-forward hook per layer of the model, the handles returned in
\* registration order; the parameters are not touched.
EngineAHooks(a, id0, call, ffn_mask, head_mask) ==
    UNION { { Hook(id0 + 2 * (l - 1), call, l, "self_attn", "attention_hook", head_mask, <<>>),
              Hook(id0 + 2 * (l - 1) + 1, call, l, "mlp", "ffn_hook", ffn_mask, <<>>) }
            : l \in Layers(a) }

\* mutant: the feed-forward hook's handle is not appended to the returned list
MaskLlamaSimpleLosesHandle(a, w, H, id0, call, ffn_mask, head_mask) ==
    [hooks   |-> H \cup EngineAHooks(a, id0, call, ffn_mask, head_mask),
     handles |-> [i \in 1..a.num_hidden_layers |-> id0 + 2 * (i - 1)],
     weights |-> w,
     raised  |-> FALSE]

\* mutant: the two masks are registered in each other's place
MaskLlamaSimpleSwapsMasks(a, w, H, id0, call, ffn_mask, head_mask) ==
    [hooks   |-> H \cup EngineAHooks(a, id0, call, head_mask, ffn_mask),
     handles |-> [i \in 1..(2 * a.num_hidden_layers) |-> id0 + i - 1],
     weights |-> w,
     raised  |-> FALSE]

\* mutant: the masks are multiplied into the stored projection weights
MaskLlamaSimplePrunesWeights(a, w, H, id0, call, ffn_mask, head_mask) ==
    [hooks   |-> H \cup EngineAHooks(a, id0, call, ffn_mask, head_mask),
     handles |-> [i \in 1..(2 * a.num_hidden_layers) |-> id0 + i - 1],
     weights |-> [l \in DOMAIN w |->
                    [w[l] EXCEPT !.down_proj = @ * ffn_mask[l][Len(ffn_mask[l])]]],
     raised  |-> FALSE]

mask_llama_simple(a, w, H, id0, call, ffn_mask, head_mask) ==
    [hooks   |-> H \cup EngineAHooks(a, id0, call, ffn_mask, head_mask),
     handles |-> [i \in 1..(2 * a.num_hidden_layers) |-> id0 + i - 1],
     weights |-> w,
     raised  |-> FALSE]

\* ---------------------------------------------------------------- forward pass
\* The state threaded through a forward pass: whether an exception was
\* raised, the current tensor, and the hooks that returned without applying
\* their mask.
FwdState(out) == [err |-> FALSE, out |-> out, skipped |-> {}]

Skip(h, st) == [st EXCEPT !.skipped = @ \cup {h.id}]

Raise(st) == [st EXCEPT !.err = TRUE]

\* the head (1-based) a feature index of a [heads, head_dim] view belongs to
HeadOf(j, width, nheads) == ((j - 1) \div (width \div nheads)) + 1

\* zero the features of the heads whose mask bit is 0
ZeroHeads(out, nheads, mask) ==
    AsSeq([j \in 1..Len(out) |-> IF mask[HeadOf(j, Len(out), nheads)] = 0 THEN 0 ELSE out[j]],
          Len(out))

\* llama.py attention_hook(module, input, output); every early return and the
\* except branch return the output as it came.
attention_hook(h, a, st) ==
    IF h.layer > Len(h.rows) THEN Skip(h, st)
    ELSE IF a.num_attention_heads > Len(h.rows[1]) THEN Skip(h, st)
    ELSE IF Len(st.out) % a.num_attention_heads # 0 THEN Skip(h, st)
    ELSE [st EXCEPT !.out = ZeroHeads(st.out, a.num_attention_heads, h.rows[h.layer])]

\* llama.py ffn_hook(module, input, output); the mask is multiplied into the
\* first mask-width features of the module output when it fits.
ffn_hook(h, a, st) ==
    IF h.layer > Len(h.rows) THEN Skip(h, st)
    ELSE LET mask == h.rows[h.layer] IN
         IF Len(mask) <= Len(st.out)
         THEN [st EXCEPT !.out = AsSeq([j \in 1..Len(st.out) |->
                                    IF j <= Len(mask) THEN st.out[j] * mask[j] ELSE st.out[j]],
                                    Len(st.out))]
         ELSE Skip(h, st)

\* mutant: the kept indices are zeroed instead of the pruned ones
SwigluHookZeroesKept(h, a, st) ==
    IF \E i \in DOMAIN h.mask : h.mask[i] # 0
    THEN [st EXCEPT !.out = AsSeq([j \in 1..Len(st.out) |->
                               IF h.mask[((j - 1) % Len(h.mask)) + 1] # 0 THEN 0 ELSE st.out[j]],
                               Len(st.out))]
    ELSE st

\* mask_llama.py swiglu_hook: zero the outputs at the pruned indices, the
\* indices taken modulo the mask length when the sizes differ.
swiglu_hook(h, a, st) ==
    IF \E i \in DOMAIN h.mask : h.mask[i] = 0
    THEN [st EXCEPT !.out = AsSeq([j \in 1..Len(st.out) |->
                               IF h.mask[((j - 1) % Len(h.mask)) + 1] = 0 THEN 0 ELSE st.out[j]],
                               Len(st.out))]
    ELSE st

\* mask_llama.py register_mask: pre-hook inputs[0] * mask (broadcast rules).
mask_pre_hook(h, a, st) ==
    IF Len(h.mask) = Len(st.out)
    THEN [st EXCEPT !.out = AsSeq([j \in 1..Len(st.out) |-> st.out[j] * h.mask[j]], Len(st.out))]
    ELSE IF Len(h.mask) = 1
    THEN [st EXCEPT !.out = AsSeq([j \in 1..Len(st.out) |-> st.out[j] * h.mask[1]], Len(st.out))]
    ELSE Raise(st)

\* mask_llama.py q_mask_hook: indexes head_mask for every head of the module.
q_mask_hook(h, a, st) ==
    IF Len(h.mask) < a.num_attention_heads THEN Raise(st)
    ELSE [st EXCEPT !.out = ZeroHeads(st.out, a.num_attention_heads, h.mask)]

\* mask_llama.py kv_mask_hook: indexes kv_head_mask for every key/value head.
kv_mask_hook(h, a, st) ==
    IF Len(h.mask) < a.num_key_value_heads THEN Raise(st)
    ELSE [st EXCEPT !.out = ZeroHeads(st.out, a.num_key_value_heads, h.mask)]

\* the three pass-through hooks: the module's output becomes its input
drop_hook(h, inp, st) == [st EXCEPT !.out = inp]

ApplyHook(h, a, inp, st) ==
    IF st.err THEN st
    ELSE CASE h.kind = "attention_hook" -> attention_hook(h, a, st)
           [] h.kind = "ffn_hook"       -> ffn_hook(h, a, st)
           [] h.kind = "swiglu_hook"    -> swiglu_hook(h, a, st)
           [] h.kind = "register_mask"  -> mask_pre_hook(h, a, st)
           [] h.kind = "q_mask_hook"    -> q_mask_hook(h, a, st)
           [] h.kind = "kv_mask_hook"   -> kv_mask_hook(h, a, st)
           [] OTHER                     -> drop_hook(h, inp, st)

\* torch calls the hooks of a module in registration order, each on the
\* result of the one before.
RECURSIVE ApplyAll(_, _, _, _)
ApplyAll(S, a, inp, st) ==
    IF S = {} THEN st
    ELSE LET h == CHOOSE g \in S : \A k \in S : g.id <= k.id
         IN ApplyAll(S \ {h}, a, inp, ApplyHook(h, a, inp, st))

HooksOn(H, l, target) == {h \in H : h.layer = l /\ h.target = target}

\* the module computes `out` from `inp`, then its hooks run
Module(H, a, l, target, inp, out, st) ==
    ApplyAll(HooksOn(H, l, target), a, inp, [st EXCEPT !.out = out])

\* activation values are kept in a finite field so that they stay bounded
Wrap(v) == v % 7

\* a bias-free projection to n features
Linear(w, x, n) == AsSeq([j \in 1..n |-> Wrap(w * x[((j - 1) % Len(x)) + 1])], n)

\* the contraction projection: every neuron feeds every output feature
DownLinear(w, x, n) == Const(n, Wrap(w * SumSeq(x)))

Add(x, y) == AsSeq([j \in 1..Len(x) |-> Wrap(x[j] + y[j])], Len(x))

\* grouped-query attention over one position: query head h reads the
\* key/value head of its group
AttnCore(a, q, k, v) ==
    LET per == a.num_attention_heads \div a.num_key_value_heads
        kvj(j) == (((HeadOf(j, Len(q), a.num_attention_heads) - 1) \div per) * a.head_dim)
                  + ((j - 1) % a.head_dim) + 1
    IN AsSeq([j \in 1..Len(q) |-> Wrap(q[j] * k[kvj(j)] + v[kvj(j)])], Len(q))

\* the attention block of layer l on the hidden state st.out: the state after
\* the hooks of q_proj, k_proj, v_proj and self_attn ran
AttentionForward(H, a, w, l, st) ==
    LET x    == st.out
        nq   == a.num_attention_heads * a.head_dim
        nkv  == a.num_key_value_heads * a.head_dim
        sq   == Module(H, a, l, "q_proj", x, Linear(w[l].q_proj, x, nq), st)
        sk   == Module(H, a, l, "k_proj", x, Linear(w[l].k_proj, x, nkv), sq)
        sv   == Module(H, a, l, "v_proj", x, Linear(w[l].v_proj, x, nkv), sk)
    IN Module(H, a, l, "self_attn", x,
              Linear(w[l].o_proj, AttnCore(a, sq.out, sk.out, sv.out), a.hidden_size), sv)

\* the gated feed-forward of layer l on h1, up to the input of down_proj: the
\* states after the hooks of gate_proj, of up_proj and the pre-hooks of
\* down_proj ran
FeedForwardInner(H, a, w, l, h1, st) ==
    LET sg   == Module(H, a, l, "gate_proj", h1, Linear(w[l].gate_proj, h1, a.intermediate_size), st)
        su   == Module(H, a, l, "up_proj", h1, Linear(w[l].up_proj, h1, a.intermediate_size), sg)
        act  == AsSeq([j \in 1..a.intermediate_size |-> Wrap(sg.out[j] * su.out[j])],
                      a.intermediate_size)
    IN [gate |-> sg, up |-> su,
        down_in |-> Module(H, a, l, "down_proj_in", act, act, su)]

\* one decoder layer: attention block, residual, gated feed-forward, residual
LayerForward(H, a, w, l, st) ==
    LET x    == st.out
        sa   == AttentionForward(H, a, w, l, st)
        h1   == Add(x, sa.out)
        sp   == FeedForwardInner(H, a, w, l, h1, sa).down_in
        sm   == Module(H, a, l, "mlp", h1, DownLinear(w[l].down_proj, sp.out, a.hidden_size), sp)
    IN Module(H, a, l, "layer", x, Add(h1, sm.out), sm)

RECURSIVE ForwardFrom(_, _, _, _, _)
ForwardFrom(H, a, w, l, st) ==
    IF l > a.num_hidden_layers \/ st.err THEN st
    ELSE ForwardFrom(H, a, w, l + 1, LayerForward(H, a, w, l, st))

\* model(x) with the hooks H registered
Forward(H, a, w, x) == ForwardFrom(H, a, w, 1, FwdState(x))

\* the unmasked base model's forward pass
BaseForward(a, w, x) == Forward({}, a, w, x)

\* ---------------------------------------------------------------- model_wrapper engine
\* python slice sum: head_mask[lo:hi].sum() with 0-based lo, exclusive hi
SliceSum(m, lo, hi) == SumSeq([i \in 1..(Min(hi, Len(m)) - Min(lo, Len(m))) |-> m[Min(lo, Len(m)) + i]])

\* head_mask.repeat_interleave(repeats)
RepeatInterleave(m, repeats) == [j \in 1..(Len(m) * repeats) |-> m[((j - 1) \div repeats) + 1]]

\* register_gqa_mask, lines 118-123: a shorter mask whose length divides the
\* head count is expanded; any other mask is kept as given.
ExpandHeadMask(a, hm) ==
    IF Len(hm) # a.num_attention_heads /\ a.num_attention_heads % Len(hm) = 0
    THEN RepeatInterleave(hm, a.num_attention_heads \div Len(hm))
    ELSE hm

\* mutant: a key/value head is pruned as soon as one query head of its group is
KvHeadMaskAnyPruned(a, hm) ==
    IF a.num_key_value_heads # a.num_attention_heads
    THEN LET per == a.num_attention_heads \div a.num_key_value_heads
         IN [g \in 1..a.num_key_value_heads |->
                IF SliceSum(hm, (g - 1) * per, g * per) < per THEN 0 ELSE 1]
    ELSE hm

\* register_gqa_mask, lines 125-142: the key/value head mask
KvHeadMask(a, hm) ==
    IF a.num_key_value_heads # a.num_attention_heads
    THEN LET per == a.num_attention_heads \div a.num_key_value_heads
         IN [g \in 1..a.num_key_value_heads |->
                IF SliceSum(hm, (g - 1) * per, g * per) = 0 THEN 0 ELSE 1]
    ELSE hm

\* a hook before torch gives it an id
Tmpl(l, target, kind, mask) == [layer |-> l, target |-> target, kind |-> kind, mask |-> mask]

\* register_swiglu_mask: gate_proj, up_proj forward hooks, down_proj pre-hook
register_swiglu_mask(l, nrow) ==
    << Tmpl(l, "gate_proj", "swiglu_hook", nrow),
       Tmpl(l, "up_proj", "swiglu_hook", nrow),
       Tmpl(l, "down_proj_in", "register_mask", nrow) >>

\* register_gqa_mask: q_proj, k_proj and v_proj forward hooks
register_gqa_mask(a, l, hrow) ==
    LET hm == ExpandHeadMask(a, hrow)
        kv == KvHeadMask(a, hm)
    IN << Tmpl(l, "q_proj", "q_mask_hook", hm),
          Tmpl(l, "k_proj", "kv_mask_hook", kv),
          Tmpl(l, "v_proj", "kv_mask_hook", kv) >>

\* mutant: the three tests are independent instead of an if/elif chain
DropHooksIndependentTests(l, nrow, hrow) ==
    (IF SumSeq(nrow) = 0 /\ SumSeq(hrow) = 0
     THEN << Tmpl(l, "layer", "drop_layer", <<>>) >> ELSE <<>>)
    \o (IF SumSeq(nrow) = 0 THEN << Tmpl(l, "mlp", "drop_mlp", <<>>) >> ELSE <<>>)
    \o (IF SumSeq(hrow) = 0 THEN << Tmpl(l, "self_attn", "drop_attention", <<>>) >> ELSE <<>>)

\* mask_llama, lines 250-266: the pass-through hook of a fully pruned part
DropHooks(l, nrow, hrow) ==
    IF SumSeq(nrow) = 0 /\ SumSeq(hrow) = 0 THEN << Tmpl(l, "layer", "drop_layer", <<>>) >>
    ELSE IF SumSeq(nrow) = 0 THEN << Tmpl(l, "mlp", "drop_mlp", <<>>) >>
    ELSE IF SumSeq(hrow) = 0 THEN << Tmpl(l, "self_attn", "drop_attention", <<>>) >>
    ELSE <<>>

\* mask_llama, lines 219-229: the neuron mask is padded with ones or cut to
\* the feed-forward's actual width
ResizeNeuronMask(nm, actual) ==
    [l \in DOMAIN nm |->
        IF Len(nm[l]) # actual
        THEN [j \in 1..actual |-> IF j <= Len(nm[l]) THEN nm[l][j] ELSE 1]
        ELSE nm[l]]

\* the hooks mask_llama registers for the layers 1..n, in registration order
RECURSIVE EngineBTemplates(_, _, _, _)
EngineBTemplates(a, n, nm, hm) ==
    IF n = 0 THEN <<>>
    ELSE EngineBTemplates(a, n - 1, nm, hm)
         \o register_swiglu_mask(n, nm[n])
         \o register_gqa_mask(a, n, hm[n])
         \o DropHooks(n, nm[n], hm[n])

\* mutant: the handle of a pass-through hook is not appended to the list
MaskLlamaLosesPassThroughHandle(a, w, H, id0, call, neuron_mask, head_mask) ==
    IF Len(head_mask) # Len(neuron_mask)
    THEN [hooks |-> H, handles |-> <<>>, weights |-> w, raised |-> TRUE]
    ELSE LET nm   == ResizeNeuronMask(neuron_mask, a.intermediate_size)
             n    == Min(Len(nm), a.num_hidden_layers)
             tm   == EngineBTemplates(a, n, nm, head_mask)
             new  == { Hook(id0 + i - 1, call, tm[i].layer, tm[i].target, tm[i].kind, <<>>, tm[i].mask)
                       : i \in DOMAIN tm }
             Numeric(id) == tm[id - id0 + 1].kind \notin {"drop_layer", "drop_mlp", "drop_attention"}
         IN [hooks   |-> H \cup new,
             handles |-> IF Len(nm) > a.num_hidden_layers THEN <<>>
                         ELSE SelectSeq([i \in DOMAIN tm |-> id0 + i - 1], Numeric),
             weights |-> w,
             raised  |-> Len(nm) > a.num_hidden_layers]

\* mask_llama.py mask_llama(model, neuron_mask, head_mask).  The assert fails
\* before anything is registered; a mask with more rows than the model has
\* layers raises IndexError after the hooks of the model's layers were
\* registered, and no handle list is returned.
mask_llama(a, w, H, id0, call, neuron_mask, head_mask) ==
    IF Len(head_mask) # Len(neuron_mask)
    THEN [hooks |-> H, handles |-> <<>>, weights |-> w, raised |-> TRUE]
    ELSE LET nm   == ResizeNeuronMask(neuron_mask, a.intermediate_size)
             n    == Min(Len(nm), a.num_hidden_layers)
             tm   == EngineBTemplates(a, n, nm, head_mask)
             new  == { Hook(id0 + i - 1, call, tm[i].layer, tm[i].target, tm[i].kind, <<>>, tm[i].mask)
                       : i \in DOMAIN tm }
         IN [hooks   |-> H \cup new,
             handles |-> IF Len(nm) > a.num_hidden_layers THEN <<>>
                         ELSE [i \in DOMAIN tm |-> id0 + i - 1],
             weights |-> w,
             raised  |-> Len(nm) > a.num_hidden_layers]

\* ---------------------------------------------------------------- wrapper
\* self.handles: the class attribute None, or a list of handles
NoneHandles == [isNone |-> TRUE, list |-> <<>>]

ListHandles(hs) == [isNone |-> FALSE, list |-> hs]

\* the handles a wrapper holds
Held(hd) == IF hd.isNone THEN {} ELSE Range(hd.list)

\* LlamaSuperNetMixin.select_sub_network: the masks of the configuration are
\* installed and the returned list is assigned to self.handles.
select_sub_network_result(a, w, H, hd, id0, call, cfg) ==
    IF ConfigOutOfRange(a, cfg)
    THEN [hooks |-> H, handles |-> hd, weights |-> w, raised |-> TRUE]
    ELSE LET m == config_to_mask(a, cfg)
             r == mask_llama_simple(a, w, H, id0, call, m.ffn_mask, m.head_mask)
         IN [hooks |-> r.hooks, handles |-> ListHandles(r.handles), weights |-> r.weights,
             raised |-> r.raised]

\* mutant: the stored list is cleared without removing its handles
ResetOnlyClearsList(H, hd) ==
    [hooks |-> H, handles |-> ListHandles(<<>>), raised |-> FALSE]

\* mutant: the handles are iterated without the None check (TypeError on None)
ResetWithoutNoneCheck(H, hd) ==
    [hooks   |-> RemoveHandles(H, hd.list),
     handles |-> ListHandles(<<>>),
     raised  |-> hd.isNone]

\* LlamaSuperNetMixin.reset_super_network: every handle of a list that is not
\* None is removed, then self.handles becomes the empty list.
reset_super_network_result(H, hd) ==
    [hooks   |-> IF ~hd.isNone THEN RemoveHandles(H, hd.list) ELSE H,
     handles |-> ListHandles(<<>>),
     raised  |-> FALSE]

\* ---------------------------------------------------------------- state
NoFwd == [ran |-> FALSE, x |-> <<>>, err |-> FALSE, out |-> <<>>, skipped |-> {}]

NoOp == [op |-> "init", raised |-> FALSE, preHeld |-> {}, preHooks |-> {},
         prevOp |-> "init", prevPreHooks |-> {}]

\* the record of an operation: its outcome, what was held and installed
\* before it, and the operation before it
Op(name, raised) ==
    [op |-> name, raised |-> raised, preHeld |-> Held(handles), preHooks |-> HookIds(hooks),
     prevOp |-> lastOp.op, prevPreHooks |-> lastOp.preHooks]

NoMasks == [neuron_mask |-> <<>>, head_mask |-> <<>>]

NoEst == [ran |-> FALSE, op |-> "none", dmodel |-> 0, dhead |-> 0, heads |-> <<>>,
          units |-> <<>>, model_type |-> "none", seq_len |-> 0, raised |-> FALSE, value |-> 0]

\* no training script is running
NoRun == [script |-> "none", pc |-> "none", name |-> <<>>, model_type |-> <<>>,
          family |-> "none", data |-> FALSE, config |-> FALSE, loaded |-> FALSE,
          nas |-> [num_layers |-> 0, num_heads |-> 0, num_units |-> 0],
          strategy |-> "none", selects |-> <<>>, steps |-> 0, optSteps |-> 0,
          schedSteps |-> 0, zeroGrads |-> 0, grad |-> 0, body |-> 1,
          search_space |-> "none", model_cls |-> <<>>, space |-> "none",
          cuda |-> FALSE, torch_dtype |-> "none",
          params |-> [device |-> "none", dtype |-> "none"],
          masks |-> [device |-> "none", dtype |-> "none"],
          error |-> "none"]

\* no loss or validation function was called
NoCall == [fn |-> "none", ran |-> FALSE]

\* A wrapper instance right after from_pretrained: no hook is registered;
\* self.handles is the empty list when the mixin's __init__ ran and the class
\* attribute None when the base class's __init__ did not chain to it.
Init ==
    /\ arch \in Archs
    /\ weights = InitWeights(arch)
    /\ hooks = {}
    /\ handles \in {NoneHandles, ListHandles(<<>>)}
    /\ inMasks = NoMasks
    /\ returned = <<>>
    /\ nextId = 1
    /\ ncalls = 0
    /\ lastOp = NoOp
    /\ fwd = NoFwd
    /\ est = NoEst
    /\ run = NoRun
    /\ libCall = NoCall

select_sub_network(cfg) ==
    /\ ncalls < MaxCalls
    /\ LET r == select_sub_network_result(arch, weights, hooks, handles, nextId, ncalls + 1, cfg)
       IN /\ hooks' = r.hooks
          /\ handles' = r.handles
          /\ weights' = r.weights
          /\ nextId' = nextId + Cardinality(r.hooks \ hooks)
          /\ lastOp' = Op("select_sub_network", r.raised)
    /\ ncalls' = ncalls + 1
    /\ fwd' = NoFwd
    /\ UNCHANGED <<libCall, run, arch, inMasks, returned, est>>

reset_super_network ==
    /\ LET r == reset_super_network_result(hooks, handles)
       IN /\ hooks' = r.hooks
          /\ handles' = IF r.raised THEN handles ELSE r.handles
          /\ lastOp' = Op("reset_super_network", r.raised)
    /\ fwd' = NoFwd
    /\ UNCHANGED <<libCall, run, arch, weights, inMasks, returned, nextId, ncalls, est>>

\* model(**batch) on the model as it is hooked now
forward(x) ==
    /\ LET r == Forward(hooks, arch, weights, x)
       IN fwd' = [ran |-> TRUE, x |-> x, err |-> r.err, out |-> r.out, skipped |-> r.skipped]
    /\ UNCHANGED <<libCall, run, arch, weights, hooks, handles, inMasks, returned, nextId, ncalls, lastOp, est>>

Next ==
    \/ \E cfg \in Configs(arch) : select_sub_network(cfg)
    \/ reset_super_network
    \/ \E x \in Inputs(arch) : forward(x)

Spec == Init /\ [][Next]_vars

\* ---------------------------------------------------------------- direct engine calls
\* 0/1 rows of length n used for masks of a mismatching shape
SomeRows(n) == { Const(n, 1), Const(n, 0), [j \in 1..n |-> IF 2 * j <= n + 1 THEN 1 ELSE 0] }

\* Masks of `width` columns for the model's layers: every row for the first
\* layer, the second layer equal to it, all ones or all zeros.
ShapedMasks(a, width) ==
    { [l \in Layers(a) |-> IF l = 1 THEN r ELSE s] :
        <<r, s>> \in { p \in Rows(width) \X Rows(width) :
                         p[2] \in {p[1], Const(width, 1), Const(width, 0)} } }

\* Masks whose width or row count is not the model's.
MisshapedMasks(a, width) ==
    { [l \in Layers(a) |-> r] :
        r \in UNION { SomeRows(n) : n \in (1..(width + 1)) \ {width} } }
    \cup { [l \in 1..n |-> Const(width, 1)] :
             n \in {a.num_hidden_layers - 1, a.num_hidden_layers + 1} }

\* Masks of the model's shape whose rows are all ones or all zeros.
PlainMasks(a, width) == [Layers(a) -> {Const(width, 1), Const(width, 0)}]

\* The mask pairs a caller passes: every head mask with a plain neuron mask,
\* and every neuron mask with a plain head mask.
MaskInputs(a) ==
    [neuron_mask : PlainMasks(a, a.intermediate_size),
     head_mask   : ShapedMasks(a, a.num_attention_heads) \cup MisshapedMasks(a, a.num_attention_heads)]
    \cup
    [neuron_mask : ShapedMasks(a, a.intermediate_size) \cup MisshapedMasks(a, a.intermediate_size),
     head_mask   : PlainMasks(a, a.num_attention_heads)]

\* A caller that holds a model and a mask pair and drives the engines itself.
InitEngine ==
    /\ arch \in Archs
    /\ weights = InitWeights(arch)
    /\ hooks = {}
    /\ handles = NoneHandles
    /\ inMasks \in MaskInputs(arch)
    /\ returned = <<>>
    /\ nextId = 1
    /\ ncalls = 0
    /\ lastOp = NoOp
    /\ fwd = NoFwd
    /\ est = NoEst
    /\ run = NoRun
    /\ libCall = NoCall

Install(name, r) ==
    /\ hooks' = r.hooks
    /\ weights' = r.weights
    /\ returned' = IF r.raised THEN returned ELSE r.handles
    /\ nextId' = nextId + Cardinality(r.hooks \ hooks)
    /\ ncalls' = ncalls + 1
    /\ lastOp' = Op(name, r.raised)
    /\ fwd' = NoFwd
    /\ UNCHANGED <<libCall, run, arch, handles, inMasks, est>>

\* handles = model_wrapper.mask.mask_llama(model, neuron_mask, head_mask)
call_mask_llama ==
    /\ ncalls < MaxEngineCalls
    /\ Install("mask_llama",
               mask_llama(arch, weights, hooks, nextId, ncalls + 1,
                          inMasks.neuron_mask, inMasks.head_mask))

\* handles = llama.mask_llama(model, ffn_mask, head_mask)
call_mask_llama_simple ==
    /\ ncalls < MaxEngineCalls
    /\ Install("mask_llama_simple",
               mask_llama_simple(arch, weights, hooks, nextId, ncalls + 1,
                                 inMasks.neuron_mask, inMasks.head_mask))

\* for handle in handles: handle.remove()
remove_returned ==
    /\ returned # <<>>
    /\ hooks' = RemoveHandles(hooks, returned)
    /\ returned' = <<>>
    /\ lastOp' = Op("remove", FALSE)
    /\ fwd' = NoFwd
    /\ UNCHANGED <<libCall, run, arch, weights, handles, inMasks, nextId, ncalls, est>>

NextEngine ==
    \/ call_mask_llama
    \/ call_mask_llama_simple
    \/ remove_returned
    \/ \E x \in Inputs(arch) : forward(x)

SpecEngine == InitEngine /\ [][NextEngine]_vars

\* ---------------------------------------------------------------- claims on the wrapper
\* C1: after a select_sub_network call that follows construction or another
\* select_sub_network call (no reset in between), the hooks installed on the
\* model are exactly those of the most recent call and the wrapper holds
\* exactly their handles.
C1_OnlyLatestCallInstalled ==
    (lastOp.op = "select_sub_network" /\ lastOp.prevOp \in {"init", "select_sub_network"})
        => /\ \A h \in hooks : h.call = ncalls
           /\ HookIds(hooks) = Held(handles)

\* C2: reset_super_network removes every handle of the stored list and leaves
\* the stored list empty, whatever the list held before the call.
C2_ResetRemovesHeldHandles ==
    lastOp.op = "reset_super_network"
        => /\ handles = ListHandles(<<>>)
           /\ lastOp.preHeld \cap HookIds(hooks) = {}
           /\ HookIds(hooks) = lastOp.preHooks \ lastOp.preHeld

C2_Witness ==
    /\ lastOp.op = "reset_super_network"
    /\ lastOp.preHeld # {}
    /\ lastOp.preHeld \subseteq lastOp.preHooks

\* C3: reset_super_network on a wrapper that holds no handle (self.handles is
\* None or empty) raises nothing, leaves the installed hooks as they were and
\* leaves the wrapper holding no handle.
C3_ResetWithNothingHeld ==
    (lastOp.op = "reset_super_network" /\ lastOp.preHeld = {})
        => /\ ~lastOp.raised
           /\ HookIds(hooks) = lastOp.preHooks
           /\ Held(handles) = {}

C3_Witness ==
    /\ lastOp.op = "reset_super_network"
    /\ lastOp.prevOp = "reset_super_network"
    /\ lastOp.preHeld = {}
    /\ ncalls > 0

\* C4: select_sub_network on a model without hooks followed by
\* reset_super_network leaves the model without hooks, and a forward pass
\* then returns what the unmasked base model returns.
C4_SelectThenResetRestoresBase ==
    (/\ lastOp.op = "reset_super_network"
     /\ lastOp.prevOp = "select_sub_network"
     /\ lastOp.prevPreHooks = {})
        => /\ hooks = {}
           /\ fwd.ran => /\ ~fwd.err
                         /\ fwd.out = BaseForward(arch, weights, fwd.x).out

C4_Witness ==
    /\ lastOp.op = "reset_super_network"
    /\ lastOp.prevOp = "select_sub_network"
    /\ lastOp.prevPreHooks = {}
    /\ lastOp.preHooks # {}
    /\ fwd.ran

\* C8: a forward pass that completes has applied the mask of every hook that
\* ran: no hook returned its output unmasked.
C8_NoSilentlyUnappliedMask ==
    (fwd.ran /\ ~fwd.err) => fwd.skipped = {}

\* the forward pass of fwd.x through the hooked model, up to and with layer l
RECURSIVE HiddenAfter(_)
HiddenAfter(l) ==
    IF l = 0 THEN FwdState(fwd.x)
    ELSE LayerForward(hooks, arch, weights, l, HiddenAfter(l - 1))

\* the layers whose head row and neuron row are both all-zero in the masks
\* the latest select_sub_network call installed
FullyPrunedLayers ==
    { l \in Layers(arch) :
        \E ha \in hooks : \E hf \in hooks :
            /\ ha.call = ncalls /\ ha.kind = "attention_hook"
            /\ hf.call = ncalls /\ hf.kind = "ffn_hook"
            /\ SumSeq(ha.rows[l]) = 0 /\ SumSeq(hf.rows[l]) = 0 }

\* C21: in a forward pass after select_sub_network, every layer whose head
\* row and neuron row are both all-zero returns its input hidden state.
C21_FullyPrunedLayerIsSkipped ==
    (fwd.ran /\ ~fwd.err /\ lastOp.op = "select_sub_network" /\ ~lastOp.raised)
        => /\ HiddenAfter(arch.num_hidden_layers).out = fwd.out
           /\ \A l \in FullyPrunedLayers : HiddenAfter(l).out = HiddenAfter(l - 1).out

\* ---------------------------------------------------------------- claims on the engines
OnesMask(a, width) == [l \in Layers(a) |-> Const(width, 1)]

IsFullCapacity(m, a) ==
    /\ m.neuron_mask = OnesMask(a, a.intermediate_size)
    /\ m.head_mask = OnesMask(a, a.num_attention_heads)

DropKinds == {"drop_layer", "drop_mlp", "drop_attention"}

\* the width of the tensor a hook on `target` receives
WidthAt(a, target) ==
    CASE target = "q_proj" -> a.num_attention_heads * a.head_dim
      [] target \in {"k_proj", "v_proj"} -> a.num_key_value_heads * a.head_dim
      [] target \in {"gate_proj", "up_proj", "down_proj_in"} -> a.intermediate_size
      [] OTHER -> a.hidden_size

Probe(n) == AsSeq([j \in 1..n |-> j], n)

\* the hook returns the tensor it was given
IsIdentity(h, a) ==
    LET p == Probe(WidthAt(a, h.target))
        r == ApplyHook(h, a, Const(Len(p), 0), FwdState(p))
    IN ~r.err /\ r.out = p

\* C5: with all-ones head and neuron masks of the model's shape, every hook
\* either engine installs returns its tensor unchanged, no pass-through hook is
\* installed, and a forward pass returns the unmasked model's output.
C5_FullCapacityIsIdentity ==
    IsFullCapacity(inMasks, arch)
        => /\ \A h \in hooks : h.kind \notin DropKinds /\ IsIdentity(h, arch)
           /\ fwd.ran => /\ ~fwd.err
                         /\ fwd.out = BaseForward(arch, weights, fwd.x).out

C5_Witness ==
    /\ IsFullCapacity(inMasks, arch)
    /\ lastOp.op = "mask_llama"
    /\ Cardinality(hooks) = 6 * arch.num_hidden_layers
    /\ fwd.ran

\* the query heads (1-based) that share key/value head g
Group(a, g) ==
    LET per == a.num_attention_heads \div a.num_key_value_heads
    IN ((g - 1) * per + 1)..(g * per)

\* C6: for the query-head mask and the key/value-head mask one
\* register_gqa_mask call installs: with grouped-query attention the bit of a
\* key/value head is 1 iff some query head of its group has bit 1, and 0
\* otherwise; without grouped-query attention the two masks are equal.
C6_KvMaskIsGroupwiseAny ==
    \A hq \in hooks : \A hk \in hooks :
        (hq.kind = "q_mask_hook" /\ hk.kind = "kv_mask_hook"
         /\ hq.call = hk.call /\ hq.layer = hk.layer)
        => IF arch.num_key_value_heads # arch.num_attention_heads
           THEN /\ Len(hk.mask) = arch.num_key_value_heads
                /\ \A g \in 1..arch.num_key_value_heads :
                     /\ hk.mask[g] \in {0, 1}
                     /\ hk.mask[g] = 1 <=>
                            \E i \in Group(arch, g) \cap DOMAIN hq.mask : hq.mask[i] = 1
           ELSE hk.mask = hq.mask

\* a group with all query heads off next to a group with one query head on
C6_Witness ==
    \E hq \in hooks : \E hk \in hooks :
        /\ hq.kind = "q_mask_hook" /\ hk.kind = "kv_mask_hook"
        /\ hq.call = hk.call /\ hq.layer = hk.layer
        /\ arch.num_key_value_heads # arch.num_attention_heads
        /\ hq.mask = <<0, 0, 0, 1>>
        /\ hk.mask = <<0, 1>>

\* a mask pair whose widths are not the module's
ShapeMismatch(m, a) ==
    \/ \E l \in DOMAIN m.neuron_mask : Len(m.neuron_mask[l]) # a.intermediate_size
    \/ \E l \in DOMAIN m.head_mask :
         /\ Len(m.head_mask[l]) # a.num_attention_heads
         /\ a.num_attention_heads % Len(m.head_mask[l]) # 0

\* C7: installing a mask pair whose neuron width differs from the
\* feed-forward's width, or whose head length neither equals nor divides the
\* head count, fails and installs nothing.
C7_ShapeMismatchFails ==
    (lastOp.op = "mask_llama" /\ ShapeMismatch(inMasks, arch))
        => /\ lastOp.raised
           /\ HookIds(hooks) = lastOp.preHooks

\* the neuron row as the engine uses it: cut or padded with ones to `width`
NeuronRowUsed(row, width) == [j \in 1..width |-> IF j <= Len(row) THEN row[j] ELSE 1]

\* the pruning regime of layer l of a mask pair
Regime(m, a, l) ==
    LET nz == SumSeq(NeuronRowUsed(m.neuron_mask[l], a.intermediate_size)) = 0
        hz == SumSeq(m.head_mask[l]) = 0
    IN IF nz /\ hz THEN 1 ELSE IF nz THEN 2 ELSE IF hz THEN 3 ELSE 4

\* the hooks of the latest install call on layer l, as <<target, kind>> pairs
InstalledOn(l) == { <<h.target, h.kind>> : h \in {g \in hooks : g.call = ncalls /\ g.layer = l} }

NeuronMaskHooks ==
    { <<"gate_proj", "swiglu_hook">>, <<"up_proj", "swiglu_hook">>,
      <<"down_proj_in", "register_mask">> }

HeadMaskHooks ==
    { <<"q_proj", "q_mask_hook">>, <<"k_proj", "kv_mask_hook">>, <<"v_proj", "kv_mask_hook">> }

PassThroughOf(regime) ==
    CASE regime = 1 -> { <<"layer", "drop_layer">> }
      [] regime = 2 -> { <<"mlp", "drop_mlp">> }
      [] regime = 3 -> { <<"self_attn", "drop_attention">> }
      [] OTHER -> {}

\* C20 as stated: for every layer mask_llama installs the interceptions of
\* exactly one regime: (1) whole-layer pass-through only, (2) feed-forward
\* pass-through and the head mask, (3) attention pass-through and the neuron
\* mask, (4) the numeric head and neuron masks only.
C20_ExactlyOneRegime ==
    (lastOp.op = "mask_llama" /\ ~lastOp.raised)
        => \A l \in DOMAIN inMasks.neuron_mask :
             InstalledOn(l) =
                CASE Regime(inMasks, arch, l) = 1 -> PassThroughOf(1)
                  [] Regime(inMasks, arch, l) = 2 -> PassThroughOf(2) \cup HeadMaskHooks
                  [] Regime(inMasks, arch, l) = 3 -> PassThroughOf(3) \cup NeuronMaskHooks
                  [] OTHER -> NeuronMaskHooks \cup HeadMaskHooks

\* C20 amended: for every layer mask_llama installs the numeric neuron-mask
\* and head-mask hooks, and next to them the pass-through hook of exactly one
\* regime in the precedence (1) both rows all-zero: the whole layer, (2) only
\* the neuron row all-zero: the feed-forward, (3) only the head row all-zero:
\* the attention, (4) otherwise none; at most one pass-through hook per layer.
C20_OnePassThroughByPrecedence ==
    (lastOp.op = "mask_llama" /\ ~lastOp.raised)
        => \A l \in DOMAIN inMasks.neuron_mask :
             /\ InstalledOn(l) =
                    NeuronMaskHooks \cup HeadMaskHooks
                    \cup PassThroughOf(Regime(inMasks, arch, l))
             /\ Cardinality({h \in hooks : h.call = ncalls /\ h.layer = l
                                            /\ h.kind \in DropKinds}) <= 1

\* a layer with both rows all-zero next to a layer with only the neuron row
\* all-zero
C20_Witness ==
    /\ lastOp.op = "mask_llama" /\ ~lastOp.raised
    /\ Regime(inMasks, arch, 1) = 1 /\ Regime(inMasks, arch, 2) = 2
    /\ \E h \in hooks : h.layer = 1 /\ h.kind = "drop_layer"
    /\ \E h \in hooks : h.layer = 2 /\ h.kind = "drop_mlp"
    /\ Cardinality({h \in hooks : h.kind \in DropKinds}) = 2

\* the feed-forward of layer l in the forward pass of fwd.x, with the hooks H
\* on the feed-forward's projections and the installed hooks everywhere else
FeedForwardOf(H, l) ==
    LET st == HiddenAfter(l - 1)
        sa == AttentionForward(hooks, arch, weights, l, st)
    IN FeedForwardInner(H, arch, weights, l, Add(st.out, sa.out), sa)

\* the value v is the unmasked value u under mask bit b
MaskedAs(v, u, b) == v = (IF b = 0 THEN 0 ELSE u)

\* C22: in a forward pass under a neuron mask installed by either engine,
\* in every layer the input of down_proj and the outputs of gate_proj and
\* up_proj are zero at every neuron whose mask bit is 0 and are what the
\* unmasked feed-forward computes at every neuron whose mask bit is 1.
C22_NeuronMaskAtContractionInput ==
    (/\ fwd.ran /\ ~fwd.err
     /\ lastOp.op \in {"mask_llama", "mask_llama_simple"} /\ ~lastOp.raised)
        => \A l \in DOMAIN inMasks.neuron_mask :
             LET row    == inMasks.neuron_mask[l]
                 masked == FeedForwardOf(hooks, l)
                 plain  == FeedForwardOf({}, l)
             IN \A j \in 1..Min(Len(row), arch.intermediate_size) :
                  /\ MaskedAs(masked.down_in.out[j], plain.down_in.out[j], row[j])
                  /\ MaskedAs(masked.gate.out[j], plain.gate.out[j], row[j])
                  /\ MaskedAs(masked.up.out[j], plain.up.out[j], row[j])

\* a step in which an engine call returned its handle list
EngineCallReturned ==
    /\ ncalls' = ncalls + 1
    /\ lastOp'.op \in {"mask_llama", "mask_llama_simple"}
    /\ ~lastOp'.raised

\* a step in which the caller removed the handles of the list it held
ReturnedHandlesRemoved == returned # <<>> /\ returned' = <<>>

\* C27: the handle list a call of either engine returns holds the handle of
\* every hook the call registered and nothing else, and when the caller
\* removes the handles of the list no hook of that call stays installed.
C27_ReturnedHandlesCoverCall ==
    [][ /\ EngineCallReturned =>
              /\ Range(returned') = HookIds(hooks') \ HookIds(hooks)
              /\ Range(returned') = {h.id : h \in {g \in hooks' : g.call = ncalls'}}
        /\ ReturnedHandlesRemoved =>
              \A h \in hooks : h.id \in Range(returned) =>
                  \A g \in hooks' : g.call # h.call ]_vars

\* the handles of a mask_llama call that registered pass-through hooks were
\* removed
C27_Witness ==
    /\ lastOp.op = "remove" /\ lastOp.prevOp = "mask_llama"
    /\ Cardinality(lastOp.preHooks) = 6 * arch.num_hidden_layers + 2
    /\ hooks = {}

\* ---------------------------------------------------------------- estimator
\* mutant: the two layer norms of a block are counted once
LayerParametersOneNorm(dmodel, dhead, nheads, nunits, model_type) ==
    LET n_layer_norm == IF model_type = "llama" THEN dmodel ELSE 2 * dmodel
        n_attention ==
            IF nheads > 0
            THEN (IF model_type = "llama"
                  THEN (dmodel * dhead * nheads) * 3 + dmodel * dmodel
                  ELSE (dmodel * dhead + dhead) * nheads * 3 + dmodel * dmodel + dmodel)
                 + n_layer_norm
            ELSE 0
        n_ffn ==
            IF nunits > 0
            THEN (IF model_type = "llama"
                  THEN dmodel * nunits + dmodel * nunits + nunits * dmodel
                  ELSE 2 * dmodel * nunits + dmodel + nunits)
                 + n_layer_norm
            ELSE 0
    IN n_attention + n_ffn

\* mutant: the gated feed-forward is counted with two projections
LayerParametersGatedTwoProjections(dmodel, dhead, nheads, nunits, model_type) ==
    LET n_layer_norm == IF model_type = "llama" THEN dmodel ELSE 2 * dmodel
        n_attention ==
            IF nheads > 0
            THEN (IF model_type = "llama"
                  THEN (dmodel * dhead * nheads) * 3 + dmodel * dmodel
                  ELSE (dmodel * dhead + dhead) * nheads * 3 + dmodel * dmodel + dmodel)
                 + n_layer_norm * 2
            ELSE 0
        n_ffn ==
            IF nunits > 0
            THEN (IF model_type = "llama"
                  THEN dmodel * nunits + nunits * dmodel
                  ELSE 2 * dmodel * nunits + dmodel + nunits)
                 + n_layer_norm * 2
            ELSE 0
    IN n_attention + n_ffn

\* mutant: the layer norms of a block are counted whether or not the block
\* keeps a head or a unit
LayerParametersNormsAlways(dmodel, dhead, nheads, nunits, model_type) ==
    LET n_layer_norm == IF model_type = "llama" THEN dmodel ELSE 2 * dmodel
        n_layer_norm_count == 2
        n_attention ==
            IF nheads > 0
            THEN (IF model_type = "llama"
                  THEN (dmodel * dhead * nheads) * 3 + dmodel * dmodel
                  ELSE (dmodel * dhead + dhead) * nheads * 3 + dmodel * dmodel + dmodel)
            ELSE 0
        n_ffn ==
            IF nunits > 0
            THEN (IF model_type = "llama"
                  THEN dmodel * nunits + dmodel * nunits + nunits * dmodel
                  ELSE 2 * dmodel * nunits + dmodel + nunits)
            ELSE 0
    IN n_attention + n_ffn + 2 * n_layer_norm * n_layer_norm_count

\* compute_parameters, lines 54-99: the body of the loop over the layers
LayerParameters(dmodel, dhead, nheads, nunits, model_type) ==
    LET n_layer_norm == IF model_type = "llama" THEN dmodel ELSE 2 * dmodel
        n_layer_norm_count == 2
        n_attention ==
            IF nheads > 0
            THEN (IF model_type = "llama"
                  THEN (dmodel * dhead * nheads) * 3 + dmodel * dmodel
                  ELSE (dmodel * dhead + dhead) * nheads * 3 + dmodel * dmodel + dmodel)
                 + n_layer_norm * n_layer_norm_count
            ELSE 0
        n_ffn ==
            IF nunits > 0
            THEN (IF model_type = "llama"
                  THEN dmodel * nunits + dmodel * nunits + nunits * dmodel
                  ELSE 2 * dmodel * nunits + dmodel + nunits)
                 + n_layer_norm * n_layer_norm_count
            ELSE 0
    IN n_attention + n_ffn

\* the loop of compute_parameters over the layers 1..n
RECURSIVE ParametersUpTo(_, _, _, _, _, _)
ParametersUpTo(n, dmodel, dhead, heads, units, model_type) ==
    IF n = 0 THEN 0
    ELSE ParametersUpTo(n - 1, dmodel, dhead, heads, units, model_type)
         + LayerParameters(dmodel, dhead, heads[n], units[n], model_type)

\* compute_parameters(dmodel, dhead, num_heads_per_layer, num_neurons_per_layer,
\* model_type); the assert on the two lengths raises AssertionError.
compute_parameters(dmodel, dhead, heads, units, model_type) ==
    IF Len(heads) # Len(units)
    THEN [raised |-> TRUE, value |-> 0]
    ELSE [raised |-> FALSE,
          value |-> ParametersUpTo(Len(heads), dmodel, dhead, heads, units, model_type)]

\* per-layer head or unit counts of up to MaxEstLayers layers
PerLayer == UNION { [1..n -> 0..MaxEstWidth] : n \in 0..MaxEstLayers }

\* the model_type strings callers pass: the documented ones, the family
\* run_from_scratch_nas passes for a RoBERTa model, and an undocumented one
ModelTypes == {"bert", "roberta", "gpt", "llama", "t5"}

\* the arguments a caller of the estimator holds
EstInputs ==
    [ran : {FALSE}, op : {"none"}, dmodel : 1..MaxEstHidden, dhead : 1..MaxEstHeadDim,
     heads : PerLayer, units : PerLayer, model_type : ModelTypes, seq_len : {0},
     raised : {FALSE}, value : {0}]

\* The estimator is a pure function: a caller holds its arguments.
InitEst ==
    /\ arch \in Archs
    /\ weights = InitWeights(arch)
    /\ hooks = {}
    /\ handles = NoneHandles
    /\ inMasks = NoMasks
    /\ returned = <<>>
    /\ nextId = 1
    /\ ncalls = 0
    /\ lastOp = NoOp
    /\ fwd = NoFwd
    /\ est \in EstInputs
    /\ run = NoRun
    /\ libCall = NoCall

call_compute_parameters ==
    /\ ~est.ran
    /\ LET r == compute_parameters(est.dmodel, est.dhead, est.heads, est.units, est.model_type)
       IN est' = [est EXCEPT !.ran = TRUE, !.op = "compute_parameters",
                             !.raised = r.raised, !.value = r.value]
    /\ UNCHANGED <<libCall, run, arch, weights, hooks, handles, inMasks, returned, nextId, ncalls, lastOp, fwd>>

NextEst == call_compute_parameters

SpecEst == InitEst /\ [][NextEst]_vars

\* the closed form of the documentation for the bias-and-affine-norm family
StandardAttention(hidden, head_dim, nheads) ==
    IF nheads > 0
    THEN (hidden * head_dim + head_dim) * nheads * 3 + hidden * hidden + hidden + 2 * (2 * hidden)
    ELSE 0

StandardFeedForward(hidden, nunits) ==
    IF nunits > 0 THEN 2 * hidden * nunits + hidden + nunits + 2 * (2 * hidden) ELSE 0

\* C10: for a model_type other than "llama" and per-layer vectors of equal
\* length, compute_parameters returns the sum over the layers of the
\* documented attention and feed-forward counts.
C10_StandardFamilyParameters ==
    (est.ran /\ est.op = "compute_parameters" /\ est.model_type # "llama"
     /\ Len(est.heads) = Len(est.units))
        => /\ ~est.raised
           /\ est.value = SumSeq([l \in 1..Len(est.heads) |->
                                    StandardAttention(est.dmodel, est.dhead, est.heads[l])
                                    + StandardFeedForward(est.dmodel, est.units[l])])

\* a two-layer call with a layer without heads and a layer without units
C10_Witness ==
    /\ est.ran /\ est.op = "compute_parameters" /\ est.model_type = "bert"
    /\ est.heads = <<0, 2>> /\ est.units = <<1, 0>>
    /\ est.dmodel = 3 /\ est.dhead = 2
    /\ est.value = 94

\* the closed form of the documentation for the bias-free gated family
GatedAttention(hidden, head_dim, nheads) ==
    IF nheads > 0 THEN hidden * head_dim * nheads * 3 + hidden * hidden + 2 * hidden ELSE 0

GatedFeedForward(hidden, nunits) ==
    IF nunits > 0 THEN 3 * hidden * nunits + 2 * hidden ELSE 0

\* C11: for model_type "llama" and per-layer vectors of equal length,
\* compute_parameters returns the sum over the layers of the documented
\* bias-free attention count (0 for a layer without heads) and gated
\* feed-forward count (0 for a layer without units).
C11_GatedFamilyParameters ==
    (est.ran /\ est.op = "compute_parameters" /\ est.model_type = "llama"
     /\ Len(est.heads) = Len(est.units))
        => /\ ~est.raised
           /\ est.value = SumSeq([l \in 1..Len(est.heads) |->
                                    GatedAttention(est.dmodel, est.dhead, est.heads[l])
                                    + GatedFeedForward(est.dmodel, est.units[l])])

\* a two-layer call with a layer without heads and a layer without units
C11_Witness ==
    /\ est.ran /\ est.op = "compute_parameters" /\ est.model_type = "llama"
    /\ est.heads = <<0, 2>> /\ est.units = <<1, 0>>
    /\ est.dmodel = 3 /\ est.dhead = 2
    /\ est.value = 66

\* the trainable parameters of one dense encoder layer: query, key, value and
\* output projections, the two feed-forward projections, their biases, and
\* the layer's two normalizations (weight and bias each)
DenseLayerParameters(hidden, nheads, head_dim, nunits) ==
    3 * (hidden * (nheads * head_dim) + nheads * head_dim)
    + ((nheads * head_dim) * hidden + hidden)
    + (hidden * nunits + nunits) + (nunits * hidden + hidden)
    + 2 * (2 * hidden)

\* every layer is kept at full width or removed
FullOrRemoved(e) ==
    /\ Len(e.heads) = Len(e.units)
    /\ \A l \in 1..Len(e.heads) :
          \/ e.heads[l] = 0 /\ e.units[l] = 0
          \/ e.heads[l] * e.dhead = e.dmodel /\ e.units[l] > 0

\* C12: for a configuration whose layers are each kept at full width or
\* removed, compute_parameters for the bias-and-affine-norm family returns the
\* number of trainable parameters of the dense encoder stack of the kept layers.
C12_CostConsistency ==
    (est.ran /\ est.op = "compute_parameters" /\ est.model_type \in {"bert", "roberta"}
     /\ FullOrRemoved(est))
        => est.value = SumSeq([l \in 1..Len(est.heads) |->
                                 IF est.heads[l] = 0 THEN 0
                                 ELSE DenseLayerParameters(est.dmodel, est.heads[l],
                                                           est.dhead, est.units[l])])

\* the families the estimator documents
SupportedModelTypes == {"bert", "roberta", "gpt", "llama"}

\* C14: compute_parameters called with a model_type outside the supported
\* families fails instead of returning a parameter count.
C14_UnsupportedFamilyRejected ==
    (est.ran /\ est.op = "compute_parameters" /\ est.model_type \notin SupportedModelTypes)
        => est.raised

\* ---------------------------------------------------------------- MAC estimator
\* mutant: the attention-score cost is linear in the sequence length
MacPerHeadLinearScores(seq_len, hidden_size, attention_head_size) ==
    3 * seq_len * hidden_size * attention_head_size
    + 2 * seq_len * attention_head_size
    + seq_len * attention_head_size * hidden_size

\* mac_per_head(seq_len, hidden_size, attention_head_size)
mac_per_head(seq_len, hidden_size, attention_head_size) ==
    LET per_head_qkv    == 3 * seq_len * hidden_size * attention_head_size
        per_head_attn   == 2 * seq_len * seq_len * attention_head_size
        per_head_output == seq_len * attention_head_size * hidden_size
    IN per_head_qkv + per_head_attn + per_head_output

\* mac_per_neuron(seq_len, hidden_size)
mac_per_neuron(seq_len, hidden_size) == 2 * seq_len * hidden_size

\* the loop of compute_mac over the first n pairs of zip(heads, neurons)
RECURSIVE MacUpTo(_, _, _, _, _, _)
MacUpTo(n, heads, neurons, seq_len, hidden_size, attention_head_size) ==
    IF n = 0 THEN 0
    ELSE MacUpTo(n - 1, heads, neurons, seq_len, hidden_size, attention_head_size)
         + heads[n] * mac_per_head(seq_len, hidden_size, attention_head_size)
         + neurons[n] * mac_per_neuron(seq_len, hidden_size)

\* compute_mac(num_heads_per_layer, num_neurons_per_layer, seq_len, hidden_size,
\* attention_head_size); zip stops at the shorter of the two vectors.
compute_mac(heads, neurons, seq_len, hidden_size, attention_head_size) ==
    [raised |-> FALSE,
     value  |-> MacUpTo(Min(Len(heads), Len(neurons)), heads, neurons,
                        seq_len, hidden_size, attention_head_size)]

\* the arguments a caller of compute_mac holds
MacInputs ==
    [ran : {FALSE}, op : {"none"}, dmodel : 1..MaxEstHidden, dhead : 1..MaxEstHeadDim,
     heads : PerLayer, units : PerLayer, model_type : {"none"}, seq_len : 1..MaxSeqLen,
     raised : {FALSE}, value : {0}]

InitMac ==
    /\ arch \in Archs
    /\ weights = InitWeights(arch)
    /\ hooks = {}
    /\ handles = NoneHandles
    /\ inMasks = NoMasks
    /\ returned = <<>>
    /\ nextId = 1
    /\ ncalls = 0
    /\ lastOp = NoOp
    /\ fwd = NoFwd
    /\ est \in MacInputs
    /\ run = NoRun
    /\ libCall = NoCall

call_compute_mac ==
    /\ ~est.ran
    /\ LET r == compute_mac(est.heads, est.units, est.seq_len, est.dmodel, est.dhead)
       IN est' = [est EXCEPT !.ran = TRUE, !.op = "compute_mac",
                             !.raised = r.raised, !.value = r.value]
    /\ UNCHANGED <<libCall, run, arch, weights, hooks, handles, inMasks, returned, nextId, ncalls, lastOp, fwd>>

NextMac == call_compute_mac

SpecMac == InitMac /\ [][NextMac]_vars

\* C13: compute_mac returns the sum over the paired layers of
\* heads * (3*seq_len*hidden*head_dim + 2*seq_len*seq_len*head_dim
\* + seq_len*head_dim*hidden) + units * (2*seq_len*hidden); a layer without
\* heads adds no attention cost and a layer without units no feed-forward cost.
C13_MacClosedForm ==
    (est.ran /\ est.op = "compute_mac")
        => /\ ~est.raised
           /\ est.value =
                SumSeq([l \in 1..Min(Len(est.heads), Len(est.units)) |->
                    est.heads[l] * (3 * est.seq_len * est.dmodel * est.dhead
                                    + 2 * est.seq_len * est.seq_len * est.dhead
                                    + est.seq_len * est.dhead * est.dmodel)
                    + est.units[l] * (2 * est.seq_len * est.dmodel)])
           /\ (\A l \in 1..Min(Len(est.heads), Len(est.units)) :
                   est.heads[l] = 0 /\ est.units[l] = 0) => est.value = 0

\* a two-layer call with a layer without heads and a layer without units
C13_Witness ==
    /\ est.ran /\ est.op = "compute_mac"
    /\ est.heads = <<0, 2>> /\ est.units = <<1, 0>>
    /\ est.seq_len = 2 /\ est.dmodel = 3 /\ est.dhead = 2
    /\ est.value = 140

\* ---------------------------------------------------------------- cost of a trimmed configuration
\* The cost of a sub-network that keeps the first layers of a model, computed
\* from the per-layer counts of the kept layers alone (trimmed) and from the
\* counts of every layer of the model with the removed layers at zero (padded).

\* the largest number of removed layers
MaxPadLayers == 2

\* n entries of zero: np.zeros(n)
Zeros(n) == [i \in 1..n |-> 0]

\* the four estimator calls of the comparison, in the order they are made
CostCalls == <<"parameters_trimmed", "parameters_padded", "mac_trimmed", "mac_padded">>

\* the arguments the caller holds, and the results still to be computed
CostInputs ==
    { [ran |-> FALSE, op |-> "none", dmodel |-> d, dhead |-> MaxEstHeadDim,
       heads |-> hu[1], units |-> hu[2], model_type |-> mt, seq_len |-> MaxSeqLen,
       raised |-> FALSE, value |-> 0,
       pad |-> k, done |-> 0, results |-> <<>>] :
         d \in {1, MaxEstHidden},
         hu \in { p \in PerLayer \X PerLayer : Len(p[1]) = Len(p[2]) },
         mt \in {"bert", "llama"},
         k \in 0..MaxPadLayers }

InitCost ==
    /\ arch \in Archs
    /\ weights = InitWeights(arch)
    /\ hooks = {}
    /\ handles = NoneHandles
    /\ inMasks = NoMasks
    /\ returned = <<>>
    /\ nextId = 1
    /\ ncalls = 0
    /\ lastOp = NoOp
    /\ fwd = NoFwd
    /\ est \in CostInputs
    /\ run = NoRun
    /\ libCall = NoCall

\* the next call of the comparison is made and its result kept
CostCall(name, r) ==
    /\ est.done < Len(CostCalls)
    /\ CostCalls[est.done + 1] = name
    /\ est' = [est EXCEPT !.ran = TRUE, !.op = name, !.raised = r.raised, !.value = r.value,
                          !.done = @ + 1, !.results = Append(@, r)]
    /\ UNCHANGED <<libCall, run, arch, weights, hooks, handles, inMasks, returned, nextId, ncalls, lastOp, fwd>>

\* compute_parameters over the kept layers
call_parameters_trimmed ==
    CostCall("parameters_trimmed",
             compute_parameters(est.dmodel, est.dhead, est.heads, est.units, est.model_type))

\* compute_parameters over every layer, the removed ones at zero
call_parameters_padded ==
    CostCall("parameters_padded",
             compute_parameters(est.dmodel, est.dhead, est.heads \o Zeros(est.pad),
                                est.units \o Zeros(est.pad), est.model_type))

\* compute_mac over the kept layers
call_mac_trimmed ==
    CostCall("mac_trimmed",
             compute_mac(est.heads, est.units, est.seq_len, est.dmodel, est.dhead))

\* compute_mac over every layer, the removed ones at zero
call_mac_padded ==
    CostCall("mac_padded",
             compute_mac(est.heads \o Zeros(est.pad), est.units \o Zeros(est.pad),
                         est.seq_len, est.dmodel, est.dhead))

NextCost ==
    \/ call_parameters_trimmed
    \/ call_parameters_padded
    \/ call_mac_trimmed
    \/ call_mac_padded

SpecCost == InitCost /\ [][NextCost]_vars

\* C30: layers with zero heads and zero units add nothing to
\* compute_parameters (their normalization parameters included) and nothing to
\* compute_mac: the result over a per-layer configuration followed by any
\* number of such layers equals the result over the configuration alone, and
\* a configuration of such layers only costs 0 under both.
C30_EmptyLayersCostNothing ==
    /\ est.done >= 2 =>
          /\ ~est.results[1].raised /\ ~est.results[2].raised
          /\ est.results[2].value = est.results[1].value
          /\ est.heads = <<>> => est.results[2].value = 0
    /\ est.done >= 4 =>
          /\ ~est.results[3].raised /\ ~est.results[4].raised
          /\ est.results[4].value = est.results[3].value
          /\ est.heads = <<>> => est.results[4].value = 0

\* both costs of a two-layer Llama configuration were computed over the two
\* layers and over four layers, the last two empty
C30_Witness ==
    /\ est.done = 4 /\ est.op = "mac_padded"
    /\ est.model_type = "llama" /\ est.pad = 2
    /\ est.heads = <<2, 1>> /\ est.units = <<1, 2>>
    /\ est.results[2].value > 0 /\ est.results[4].value > 0

\* ---------------------------------------------------------------- wrapper and engines together
\* the mask pairs of the full and of the smallest configuration
FrameMasks(a) ==
    { [neuron_mask |-> config_to_mask(a, cfg).ffn_mask,
       head_mask |-> config_to_mask(a, cfg).head_mask] :
        cfg \in {FullConfig(a), [num_layers |-> 1, num_heads |-> 1, num_units |-> 1]} }

\* A caller that uses the wrapper and also calls the engines on its model.
InitFrame ==
    /\ arch \in Archs
    /\ weights = InitWeights(arch)
    /\ hooks = {}
    /\ handles \in {NoneHandles, ListHandles(<<>>)}
    /\ inMasks \in FrameMasks(arch)
    /\ returned = <<>>
    /\ nextId = 1
    /\ ncalls = 0
    /\ lastOp = NoOp
    /\ fwd = NoFwd
    /\ est = NoEst
    /\ run = NoRun
    /\ libCall = NoCall

NextFrame ==
    \/ \E cfg \in Configs(arch) : select_sub_network(cfg)
    \/ reset_super_network
    \/ call_mask_llama
    \/ call_mask_llama_simple
    \/ remove_returned

SpecFrame == InitFrame /\ [][NextFrame]_vars

\* C9: across any sequence of select_sub_network, reset_super_network, engine
\* installs and handle removals, the model's parameters keep the values they
\* had after loading.
C9_WeightsUnchanged == weights = InitWeights(arch)

\* the model_wrapper engine has installed, select_sub_network has installed and
\* a reset has removed the wrapper's hooks
C9_Witness ==
    /\ lastOp.op = "reset_super_network"
    /\ lastOp.prevOp = "select_sub_network"
    /\ lastOp.preHeld # {}
    /\ \E h \in hooks : h.kind = "swiglu_hook"

\* ---------------------------------------------------------------- training scripts
\* Strings are tuples of tokens: "bert-tiny" is <<"bert", "-", "tiny">>.
StartsWith(str, prefix) ==
    Len(str) >= Len(prefix) /\ SubSeq(str, 1, Len(prefix)) = prefix

\* str.lower() on one token
Lower(tok) ==
    CASE tok = "Llama" -> "llama"
      [] tok = "EleutherAI" -> "eleutherai"
      [] OTHER -> tok

\* name.split("-")[1]
SecondDashField(str) == IF Len(str) >= 3 /\ str[3] # "-" THEN <<str[3]>> ELSE <<>>

\* hf_args.parse_model_name(model_args)
parse_model_name(name) ==
    IF name \in {<<"bert", "-", "small">>, <<"bert", "-", "medium">>, <<"bert", "-", "tiny">>}
    THEN <<"prajjwal1", "/">> \o name
    ELSE IF name = <<"electra", "-", "base">>
    THEN <<"google", "/", "electra", "-", "base", "-", "discriminator">>
    ELSE IF name = <<"electra", "-", "small">>
    THEN <<"google", "/", "electra", "-", "small", "-", "discriminator">>
    ELSE IF StartsWith(name, <<"pythia">>)
    THEN <<"EleutherAI", "/">> \o name
    ELSE IF StartsWith(name, <<"llama", "-">>)
    THEN <<"meta", "-", "llama", "/", "Llama", "-", "2", "-">>
         \o SecondDashField(name) \o <<"-", "hf">>
    ELSE name

\* The values of --model_name_or_path.
ModelNames ==
    { <<"bert", "-", "base", "-", "uncased">>,
      <<"roberta", "-", "base">>,
      <<"bert", "-", "tiny">>,
      <<"llama", "-", "7b">>,
      <<"meta", "-", "llama", "/", "Llama", "-", "2", "-", "7b", "-", "hf">>,
      <<"gpt2">>,
      <<"electra", "-", "base">>,
      <<"pythia", "-", "70m">>,
      <<"distil", "bert", "-", "base", "-", "uncased">> }

\* AutoConfig.from_pretrained(model_type).model_type: the architecture family
\* the checkpoint of that identifier declares.
HubModelType(id) ==
    CASE id = <<"bert", "-", "base", "-", "uncased">> -> "bert"
      [] id = <<"roberta", "-", "base">> -> "roberta"
      [] id = <<"prajjwal1", "/", "bert", "-", "tiny">> -> "bert"
      [] id = <<"meta", "-", "llama", "/", "Llama", "-", "2", "-", "7b", "-", "hf">> -> "llama"
      [] id = <<"gpt2">> -> "gpt2"
      [] id = <<"google", "/", "electra", "-", "base", "-", "discriminator">> -> "electra"
      [] id = <<"EleutherAI", "/", "pythia", "-", "70m">> -> "gpt_neox"
      [] id = <<"distil", "bert", "-", "base", "-", "uncased">> -> "distilbert"
      [] OTHER -> "unknown"

\* mutant: an identifier of no supported family is treated as BERT
ModelFamilyDefaultsToBert(model_type) ==
    IF StartsWith(model_type, <<"bert">>) THEN "bert"
    ELSE IF StartsWith(model_type, <<"roberta">>) THEN "roberta"
    ELSE IF \E i \in DOMAIN model_type : Lower(model_type[i]) = "llama" THEN "llama"
    ELSE "bert"

\* main, "Determine model family": the family, or "unsupported" where the
\* code raises NotImplementedError
ModelFamily(model_type) ==
    IF StartsWith(model_type, <<"bert">>) THEN "bert"
    ELSE IF StartsWith(model_type, <<"roberta">>) THEN "roberta"
    ELSE IF \E i \in DOMAIN model_type : Lower(model_type[i]) = "llama" THEN "llama"
    ELSE "unsupported"

\* run_from_scratch_nas.NASArguments defaults
DefaultNumLayers == 12

DefaultNumHeads == 12

DefaultNumUnits == 3072

\* run_nas config_space: randint(0, n) draws from 0..n
ConfigSpaceMaxLayers == 12

ConfigSpaceMaxHeads == 12

ConfigSpaceMaxUnits == 3072

\* The configurations run_from_scratch_nas is started with: its defaults, and
\* values the search driver draws (the ends of each interval and small values).
NasConfigs ==
    { [num_layers |-> DefaultNumLayers, num_heads |-> DefaultNumHeads,
       num_units |-> DefaultNumUnits] }
    \cup [num_layers : {0, 1, 2, ConfigSpaceMaxLayers},
          num_heads  : {0, 1, 2, ConfigSpaceMaxHeads},
          num_units  : {0, 2, ConfigSpaceMaxUnits}]

\* train_supernet: the keys of training_strategies
StrategyNames == {"standard", "sandwich", "random", "random_linear", "kd", "full"}

\* train_supernet.search_spaces: the dictionary's keys and its values
SearchSpaceKeys == {"small", "medium", "layer", "large", "llama_adaptive"}

search_spaces(key) ==
    CASE key = "small" -> "SmallSearchSpace"
      [] key = "medium" -> "MediumSearchSpace"
      [] key = "layer" -> "LayerSearchSpace"
      [] key = "large" -> "FullSearchSpace"
      [] key = "llama_adaptive" -> "LlamaAdaptiveSearchSpace"

\* train_supernet.model_types: the keys of the table of a family, the same
\* under "seq_classification" and under "multiple_choice"
ModelTypeKeys(family) == {"small", "medium", "layer", "large"}

\* the statements of main in execution order
Order(script) ==
    IF script = "train_supernet"
    THEN <<"parse_model_name", "load_data", "load_config", "determine_family",
           "select_model_class", "make_search_space", "load_model", "prepare",
           "train", "done">>
    ELSE <<"load_data", "parse_model_name", "load_config", "determine_family",
           "load_model", "select_sub_network", "compute_parameters", "prepare",
           "train", "done">>

After(script, pc) ==
    LET o == Order(script)
        i == CHOOSE k \in DOMAIN o : o[k] = pc
    IN o[i + 1]

\* model_data.get_model_data(model): the sizes the estimator is called with
get_model_data(a) ==
    [attention_size |-> a.hidden_size, attention_head_size |-> a.head_dim]

\* optimizer.step(): every trainable parameter is updated
OptimizerStep(w) ==
    [l \in DOMAIN w |->
        [q_proj |-> Wrap(w[l].q_proj + 1), k_proj |-> Wrap(w[l].k_proj + 1),
         v_proj |-> Wrap(w[l].v_proj + 1), o_proj |-> Wrap(w[l].o_proj + 1),
         gate_proj |-> Wrap(w[l].gate_proj + 1), up_proj |-> Wrap(w[l].up_proj + 1),
         down_proj |-> Wrap(w[l].down_proj + 1)]]

\* whether torch.cuda.is_available(), and the --torch_dtype the model is
\* loaded with (float32 when none is given)
Machines == [cuda : BOOLEAN, torch_dtype : {"float32", "bfloat16"}]

\* torch.device("cuda") if torch.cuda.is_available() else torch.device("cpu")
ComputeDevice(cuda) == IF cuda THEN "cuda" ELSE "cpu"

\* module.to(device): the parameters move, the dtype stays
ModuleTo(placement, device) == [placement EXCEPT !.device = device]

\* select_sub_network, llama.py 137-138: the masks are moved to the device of
\* the model's parameters and to the model's dtype
MaskPlacement(params) == [device |-> params.device, dtype |-> params.dtype]

\* the command lines of the two training scripts
RunInputs ==
    { [NoRun EXCEPT !.script = "train_supernet", !.pc = "parse_model_name",
                    !.name = n, !.strategy = st, !.search_space = sp,
                    !.cuda = m.cuda, !.torch_dtype = m.torch_dtype,
                    !.nas = [num_layers |-> 0, num_heads |-> 0, num_units |-> 0]] :
        <<n, st, sp, m>> \in ModelNames \X {"None", "sandwich", "kd"}
                                         \X {"small", "large", "llama_adaptive"}
                                         \X Machines }
    \cup
    { [NoRun EXCEPT !.script = "run_from_scratch_nas", !.pc = "load_data",
                    !.name = n, !.nas = cfg,
                    !.cuda = m.cuda, !.torch_dtype = m.torch_dtype] :
        <<n, cfg, m>> \in ModelNames \X NasConfigs \X Machines }

\* A training script is started; arch is the configuration the checkpoint
\* declares.
InitRun ==
    /\ arch \in Archs
    /\ weights = InitWeights(arch)
    /\ hooks = {}
    /\ handles \in {NoneHandles, ListHandles(<<>>)}
    /\ inMasks = NoMasks
    /\ returned = <<>>
    /\ nextId = 1
    /\ ncalls = 0
    /\ lastOp = NoOp
    /\ fwd = NoFwd
    /\ est = NoEst
    /\ run \in RunInputs
    /\ libCall = NoCall

Advance(r) == [r EXCEPT !.pc = After(r.script, r.pc)]

Fail(r, e) == [r EXCEPT !.pc = "failed", !.error = e]

ModelUntouched == UNCHANGED <<libCall, arch, weights, hooks, handles, inMasks, returned, nextId,
                              ncalls, lastOp, fwd, est>>

\* data = Glue(...) / IMDB(...) / SWAG(...); data.get_data_loaders()
main_load_data ==
    /\ run.pc = "load_data"
    /\ run' = Advance([run EXCEPT !.data = TRUE])
    /\ ModelUntouched

\* model_type = parse_model_name(model_args)
main_parse_model_name ==
    /\ run.pc = "parse_model_name"
    /\ run' = Advance([run EXCEPT !.model_type = parse_model_name(run.name)])
    /\ ModelUntouched

\* config = AutoConfig.from_pretrained(model_type, ...)
main_load_config ==
    /\ run.pc = "load_config"
    /\ run' = Advance([run EXCEPT !.config = TRUE])
    /\ ModelUntouched

\* the if/elif chain on model_type; its else branch raises NotImplementedError
main_determine_family ==
    /\ run.pc = "determine_family"
    /\ LET f == ModelFamily(run.model_type)
       IN run' = IF f = "unsupported" THEN Fail(run, "NotImplementedError")
                 ELSE Advance([run EXCEPT !.family = f])
    /\ ModelUntouched

\* train_supernet: model_cls = model_types[model_family][task][search_space];
\* a key the table does not have raises KeyError
main_select_model_class ==
    /\ run.pc = "select_model_class"
    /\ run' = IF run.search_space \in ModelTypeKeys(run.family)
              THEN Advance([run EXCEPT !.model_cls = <<run.family, run.search_space>>])
              ELSE Fail(run, "KeyError")
    /\ ModelUntouched

\* train_supernet: search_space = search_spaces[...](config, seed=...)
main_make_search_space ==
    /\ run.pc = "make_search_space"
    /\ LET key == IF run.family = "llama" /\ run.search_space = "llama_adaptive"
                  THEN "llama_adaptive" ELSE run.search_space
       IN run' = IF key \in SearchSpaceKeys
                 THEN Advance([run EXCEPT !.space = search_spaces(key)])
                 ELSE Fail(run, "KeyError")
    /\ ModelUntouched

\* model = model_cls.from_pretrained(model_type, ...)
main_load_model ==
    /\ run.pc = "load_model"
    /\ run' = Advance([run EXCEPT
                         !.loaded = TRUE,
                         !.params = [device |-> IF run.script = "train_supernet"
                                                THEN ComputeDevice(run.cuda) ELSE "cpu",
                                     dtype |-> run.torch_dtype]])
    /\ ModelUntouched

\* run_from_scratch_nas: model.select_sub_network({...}); model.to(device)
main_select_sub_network ==
    /\ run.pc = "select_sub_network"
    /\ LET r == select_sub_network_result(arch, weights, hooks, handles, nextId,
                                           ncalls + 1, run.nas)
       IN /\ hooks' = r.hooks
          /\ handles' = r.handles
          /\ weights' = r.weights
          /\ nextId' = nextId + Cardinality(r.hooks \ hooks)
          /\ lastOp' = Op("select_sub_network", r.raised)
          /\ run' = LET q == [run EXCEPT !.selects = Append(@, run.nas)]
                    IN IF r.raised THEN Fail(q, "ConfigOutOfRange")
                       ELSE Advance([q EXCEPT
                                       !.masks = MaskPlacement(run.params),
                                       !.params = ModuleTo(@, ComputeDevice(run.cuda))])
    /\ ncalls' = ncalls + 1
    /\ UNCHANGED <<libCall, arch, inMasks, returned, fwd, est>>

\* run_from_scratch_nas: n_params_model = compute_parameters(...)
main_compute_parameters ==
    /\ run.pc = "compute_parameters"
    /\ LET d     == get_model_data(arch)
           heads == Const(run.nas.num_layers, run.nas.num_heads)
           units == Const(run.nas.num_layers, run.nas.num_units)
           r     == compute_parameters(d.attention_size, d.attention_head_size,
                                       heads, units, run.family)
       IN est' = [NoEst EXCEPT !.ran = TRUE, !.op = "compute_parameters",
                               !.dmodel = d.attention_size, !.dhead = d.attention_head_size,
                               !.heads = heads, !.units = units, !.model_type = run.family,
                               !.raised = r.raised, !.value = r.value]
    /\ run' = Advance(run)
    /\ UNCHANGED <<libCall, arch, weights, hooks, handles, inMasks, returned, nextId, ncalls,
                   lastOp, fwd>>

\* optimizer and scheduler; train_supernet also looks its strategy up:
\* update_op = training_strategies[nas_args.sampling_strategy]
main_prepare ==
    /\ run.pc = "prepare"
    /\ run' = IF run.script = "train_supernet" /\ run.strategy \notin StrategyNames
              THEN Fail(run, "KeyError")
              ELSE Advance(run)
    /\ ModelUntouched

\* run_from_scratch_nas, one batch: outputs = model(batch); loss.backward();
\* optimizer.step()
nas_train_step(x) ==
    /\ run.pc = "train"
    /\ run.script = "run_from_scratch_nas"
    /\ run.steps < MaxTrainSteps
    /\ LET r == Forward(hooks, arch, weights, x)
       IN fwd' = [ran |-> TRUE, x |-> x, err |-> r.err, out |-> r.out, skipped |-> r.skipped]
    /\ run' = IF fwd'.err THEN Fail([run EXCEPT !.steps = @ + 1], "RuntimeError")
              ELSE [run EXCEPT !.steps = @ + 1, !.optSteps = @ + 1]
    /\ weights' = IF fwd'.err THEN weights ELSE OptimizerStep(weights)
    /\ UNCHANGED <<libCall, arch, hooks, handles, inMasks, returned, nextId, ncalls, lastOp, est>>

\* train_supernet: the statements of the training loop's body, in order
LoopBody == <<"update_op", "optimizer_step", "lr_scheduler_step", "zero_grad">>

\* the position after position i of the loop body; after the last statement
\* the loop takes the next batch
NextInBody(i) == IF i = Len(LoopBody) THEN 1 ELSE i + 1

AtBody(stmt) ==
    /\ run.pc = "train"
    /\ run.script = "train_supernet"
    /\ LoopBody[run.body] = stmt

\* mutant: the gradients are left as they are
ZeroGradKeepsGradients(grad) == grad

\* optimizer.zero_grad()
zero_grad(grad) == 0

\* train_supernet, one batch: loss = update_op(model, batch, batch["labels"]);
\* step += 1.  The strategy makes its backward passes, which add to the
\* parameters' gradients.
supernet_train_step ==
    /\ AtBody("update_op")
    /\ run.steps < MaxTrainSteps
    /\ \E k \in 1..MaxBackwardPasses :
         run' = [run EXCEPT !.steps = @ + 1, !.grad = @ + k, !.body = NextInBody(@)]
    /\ ModelUntouched

\* train_supernet: optimizer.step()
supernet_optimizer_step ==
    /\ AtBody("optimizer_step")
    /\ run' = [run EXCEPT !.optSteps = @ + 1, !.body = NextInBody(@)]
    /\ weights' = OptimizerStep(weights)
    /\ UNCHANGED <<libCall, arch, hooks, handles, inMasks, returned, nextId, ncalls, lastOp, fwd, est>>

\* train_supernet: lr_scheduler.step()
supernet_lr_scheduler_step ==
    /\ AtBody("lr_scheduler_step")
    /\ run' = [run EXCEPT !.schedSteps = @ + 1, !.body = NextInBody(@)]
    /\ ModelUntouched

\* train_supernet: optimizer.zero_grad()
supernet_zero_grad ==
    /\ AtBody("zero_grad")
    /\ run' = [run EXCEPT !.zeroGrads = @ + 1, !.grad = zero_grad(@), !.body = NextInBody(@)]
    /\ ModelUntouched

\* the batches are used up: evaluation and the report
main_finish ==
    /\ run.pc = "train"
    /\ run.steps = MaxTrainSteps
    /\ run.body = 1
    /\ run' = Advance(run)
    /\ ModelUntouched

NextRun ==
    \/ main_load_data
    \/ main_parse_model_name
    \/ main_load_config
    \/ main_determine_family
    \/ main_select_model_class
    \/ main_make_search_space
    \/ main_load_model
    \/ main_select_sub_network
    \/ main_compute_parameters
    \/ main_prepare
    \/ \E x \in Inputs(arch) : nas_train_step(x)
    \/ supernet_train_step
    \/ supernet_optimizer_step
    \/ supernet_lr_scheduler_step
    \/ supernet_zero_grad
    \/ main_finish

SpecRun == InitRun /\ [][NextRun]_vars

\* the families the training scripts support
SupportedFamilies == {"bert", "roberta", "llama"}

\* C15: when the checkpoint named on the command line is of no supported
\* family, a training script never gets past its family test: it ends there
\* with NotImplementedError, the model is never loaded, and no training step,
\* optimizer step or select_sub_network call happens.
C15_UnsupportedFamilyFailsFast ==
    (run.script # "none"
     /\ HubModelType(parse_model_name(run.name)) \notin SupportedFamilies)
        => /\ ~run.loaded
           /\ run.steps = 0 /\ run.optSteps = 0 /\ run.selects = <<>>
           /\ run.pc \in {"load_data", "parse_model_name", "load_config",
                           "determine_family", "failed"}
           /\ run.pc = "failed" => run.error = "NotImplementedError"

\* run_from_scratch_nas started on gpt2 has stopped at the family test
C15_Witness ==
    /\ run.script = "run_from_scratch_nas"
    /\ run.name = <<"gpt2">>
    /\ run.data /\ run.config
    /\ run.pc = "failed" /\ run.error = "NotImplementedError"

\* C29: when parse_model_name resolves the name on the command line to the
\* identifier of a BERT, RoBERTa or Llama checkpoint, the family test of the
\* training script does not raise NotImplementedError, and the family it
\* yields is the family of that checkpoint.
C29_ResolvedNamePassesFamilyTest ==
    (run.script # "none"
     /\ HubModelType(parse_model_name(run.name)) \in SupportedFamilies)
        => /\ run.error # "NotImplementedError"
           /\ run.family \in {"none", HubModelType(parse_model_name(run.name))}

WithinBounds(cfg, a) ==
    /\ cfg.num_layers \in 0..a.num_hidden_layers
    /\ cfg.num_heads \in 0..a.num_attention_heads
    /\ cfg.num_units \in 0..a.intermediate_size

\* C16: every configuration passed to select_sub_network, and every per-layer
\* vector passed to compute_parameters, by run_from_scratch_nas lies within
\* the layer count, head count and intermediate size of the loaded model.
C16_ConfigsWithinBounds ==
    /\ \A i \in DOMAIN run.selects : WithinBounds(run.selects[i], arch)
    /\ (run.script = "run_from_scratch_nas" /\ est.ran)
          => /\ Len(est.heads) <= arch.num_hidden_layers
             /\ \A l \in DOMAIN est.heads : est.heads[l] <= arch.num_attention_heads
             /\ \A l \in DOMAIN est.units : est.units[l] <= arch.intermediate_size

\* the number of heads or units the configuration requests for layer l
Requested(cfg, l, n) == IF l <= cfg.num_layers THEN n ELSE 0

C23_OneUpdatePerBatchInOrder ==
    (run.script = "train_supernet" /\ run.pc \in {"train", "done"})
        => LET at == LoopBody[run.body]
               n  == run.steps
           IN /\ at = "update_op" =>
                    /\ run.optSteps = n /\ run.schedSteps = n /\ run.zeroGrads = n
                    /\ run.grad = 0
              /\ at = "optimizer_step" =>
                    /\ run.optSteps = n - 1 /\ run.schedSteps = n - 1 /\ run.zeroGrads = n - 1
                    /\ run.grad \in 1..MaxBackwardPasses
              /\ at = "lr_scheduler_step" =>
                    run.optSteps = n /\ run.schedSteps = n - 1 /\ run.zeroGrads = n - 1
              /\ at = "zero_grad" =>
                    run.optSteps = n /\ run.schedSteps = n /\ run.zeroGrads = n - 1

\* two batches were trained on and the second gradient reset was made
C23_Witness ==
    /\ run.script = "train_supernet" /\ run.pc \in {"train", "done"}
    /\ LoopBody[run.body] = "update_op"
    /\ run.steps = 2 /\ run.optSteps = 2 /\ run.schedSteps = 2 /\ run.zeroGrads = 2
    /\ run.grad = 0

\* C25: train_supernet started on a Llama model with the search space
\* "llama_adaptive" does not fail before its search space is constructed, and
\* the search space it constructs is LlamaAdaptiveSearchSpace.
C25_LlamaAdaptiveReachesSearchSpace ==
    (run.script = "train_supernet" /\ run.family = "llama"
     /\ run.search_space = "llama_adaptive")
        => /\ ~(run.pc = "failed" /\ run.space = "none")
           /\ run.space \in {"none", "LlamaAdaptiveSearchSpace"}

\* C28: in a forward pass of run_from_scratch_nas after select_sub_network
\* the installed masks are on the device of the model's parameters and have
\* their dtype.
C28_MasksFollowModelPlacement ==
    (run.script = "run_from_scratch_nas" /\ run.steps > 0 /\ fwd.ran)
        => /\ run.masks.device = run.params.device
           /\ run.masks.dtype = run.params.dtype

\* ---------------------------------------------------------------- distillation loss
\* A tensor is the expression that computes it (the functions of torch are
\* left uninterpreted) together with the models its autograd graph reaches.
Tensor(v, graph) == [v |-> v, graph |-> graph]

\* Tensor.detach()
detach(t) == Tensor(t.v, {})

\* tensor / scalar
TrueDiv(t, c) == Tensor(<<"div", t.v, c>>, t.graph)

\* scalar * tensor
ScalarMul(c, t) == Tensor(<<"mul", c, t.v>>, t.graph)

\* tensor + tensor
TensorAdd(a, b) == Tensor(<<"add", a.v, b.v>>, a.graph \cup b.graph)

\* F.softmax(input, dim=1)
softmax(input) == Tensor(<<"softmax", input.v>>, input.graph)

\* F.cross_entropy(input, target)
cross_entropy(input, target) ==
    Tensor(<<"cross_entropy", input.v, target.v>>, input.graph \cup target.graph)

\* F.mse_loss(input, target)
mse_loss(input, target) ==
    Tensor(<<"mse_loss", input.v, target.v>>, input.graph \cup target.graph)

\* mutant: the soft cross-entropy is scaled by the temperature, not its square
KdLossLinearTemperature(student_output, targets, teacher_output, temperature, is_regression) ==
    LET teacher_logits == detach(teacher_output.logits)
        student_logits == student_output.logits
    IN IF is_regression THEN mse_loss(student_logits, teacher_logits)
       ELSE TensorAdd(ScalarMul(temperature,
                                cross_entropy(TrueDiv(student_logits, temperature),
                                              softmax(TrueDiv(teacher_logits, temperature)))),
                      cross_entropy(student_logits, targets))

\* train_supernet.kd_loss
kd_loss(student_output, targets, teacher_output, temperature, is_regression) ==
    LET teacher_logits == detach(teacher_output.logits)
        student_logits == student_output.logits
    IN IF is_regression THEN mse_loss(student_logits, teacher_logits)
       ELSE LET kd == cross_entropy(TrueDiv(student_logits, temperature),
                                    softmax(TrueDiv(teacher_logits, temperature)))
                predictive_loss == cross_entropy(student_logits, targets)
            IN TensorAdd(ScalarMul(temperature * temperature, kd), predictive_loss)

\* logits of one example over two classes
Logits == { <<0, 1>>, <<2, 0>>, <<1, 1>> }

\* ground-truth targets
Targets == { Tensor(<<c>>, {}) : c \in {0, 1} }

Temperatures == 1..MaxTemperature

\* the calls of kd_loss: the outputs of a student and of a teacher forward
\* pass, the targets, a temperature and the task kind
KdInputs ==
    [fn : {"kd_loss"}, ran : {FALSE},
     student_output : { [logits |-> Tensor(z, {"student"})] : z \in Logits },
     teacher_output : { [logits |-> Tensor(z, {"teacher"})] : z \in Logits },
     targets : Targets,
     temperature : Temperatures,
     is_regression : BOOLEAN,
     value : {Tensor(<<>>, {})}]

InitKd ==
    /\ arch \in Archs
    /\ weights = InitWeights(arch)
    /\ hooks = {}
    /\ handles = NoneHandles
    /\ inMasks = NoMasks
    /\ returned = <<>>
    /\ nextId = 1
    /\ ncalls = 0
    /\ lastOp = NoOp
    /\ fwd = NoFwd
    /\ est = NoEst
    /\ run = NoRun
    /\ libCall \in KdInputs

\* loss = kd_loss(student_output, targets, teacher_output, temperature, is_regression)
call_kd_loss ==
    /\ libCall.fn = "kd_loss" /\ ~libCall.ran
    /\ libCall' = [libCall EXCEPT
                      !.ran = TRUE,
                      !.value = kd_loss(libCall.student_output, libCall.targets,
                                        libCall.teacher_output, libCall.temperature,
                                        libCall.is_regression)]
    /\ UNCHANGED <<arch, weights, hooks, handles, inMasks, returned, nextId, ncalls, lastOp,
                   fwd, est, run>>

NextKd == call_kd_loss

SpecKd == InitKd /\ [][NextKd]_vars

\* C24: for classification kd_loss returns temperature squared times the
\* cross-entropy of the temperature-scaled student logits against the softmax
\* of the temperature-scaled teacher logits, plus the cross-entropy of the
\* student logits against the targets; for regression it returns the
\* mean-squared error of student and teacher logits, the same for every
\* target and temperature; the loss has no gradient path to the teacher.
C24_KdLossForm ==
    (libCall.fn = "kd_loss" /\ libCall.ran)
        => LET s == libCall.student_output.logits.v
               t == libCall.teacher_output.logits.v
               y == libCall.targets.v
               T == libCall.temperature
           IN /\ ~libCall.is_regression =>
                    libCall.value.v =
                        <<"add",
                          <<"mul", T * T,
                            <<"cross_entropy", <<"div", s, T>>, <<"softmax", <<"div", t, T>>>>>>>>,
                          <<"cross_entropy", s, y>>>>
              /\ libCall.is_regression =>
                    /\ libCall.value.v = <<"mse_loss", s, t>>
                    /\ \A y2 \in Targets : \A T2 \in Temperatures :
                         kd_loss(libCall.student_output, y2, libCall.teacher_output, T2, TRUE)
                             = libCall.value
              /\ libCall.value.graph = {"student"}

\* a classification call with temperature 2
C24_Witness ==
    /\ libCall.fn = "kd_loss" /\ libCall.ran
    /\ ~libCall.is_regression
    /\ libCall.temperature = 2
    /\ libCall.student_output.logits.v = <<2, 0>>
    /\ libCall.teacher_output.logits.v = <<0, 1>>
    /\ libCall.value.v[2][2] = 4

\* ---------------------------------------------------------------- rope_scaling validation
\* A python value: its type, a string payload and a numeric payload.  The
\* numeric payload of a finite float counts halves: 3 is 1.5.
PyNone == [t |-> "NoneType", s |-> "", n |-> 0]

PyStr(str) == [t |-> "str", s |-> str, n |-> 0]

PyInt(i) == [t |-> "int", s |-> "", n |-> i]

PyFloat(halves) == [t |-> "float", s |-> "finite", n |-> halves]

PyNaN == [t |-> "float", s |-> "nan", n |-> 0]

PyInf == [t |-> "float", s |-> "inf", n |-> 0]

\* the marker of a key a dict does not have
Absent == [t |-> "absent", s |-> "", n |-> 0]

RopeKeys == {"type", "factor", "rope_type", "low_freq_factor"}

\* a dict over RopeKeys, and the values that are no dict
PyDict(items) == [kind |-> "dict", items |-> items]

NoDict(kind) == [kind |-> kind, items |-> [k \in RopeKeys |-> Absent]]

\* len(d), key in d, d.get(key, None), d[key]
DictLen(d) == Cardinality({k \in RopeKeys : d.items[k] # Absent})

HasKey(d, k) == d.items[k] # Absent

DictGet(d, k) == IF HasKey(d, k) THEN d.items[k] ELSE PyNone

\* python's x <= 1.0 on a float: False for nan and for inf
FloatLeOne(x) == x.s = "finite" /\ x.n <= 2

\* CustomLlamaConfig._rope_scaling_validation(self), on self.rope_scaling
rope_scaling_validation(rope_scaling) ==
    IF rope_scaling.kind = "None" THEN "return"
    ELSE IF rope_scaling.kind = "dict" /\ HasKey(rope_scaling, "rope_type")
            /\ rope_scaling.items["rope_type"] = PyStr("llama3")
    THEN "return"
    ELSE IF rope_scaling.kind # "dict" \/ DictLen(rope_scaling) # 2 THEN "ValueError"
    ELSE LET rope_scaling_type == DictGet(rope_scaling, "type")
             rope_scaling_factor == DictGet(rope_scaling, "factor")
         IN IF rope_scaling_type = PyNone
               \/ rope_scaling_type \notin {PyStr("linear"), PyStr("dynamic")}
            THEN "ValueError"
            ELSE IF rope_scaling_factor = PyNone \/ rope_scaling_factor.t # "float"
                    \/ FloatLeOne(rope_scaling_factor)
            THEN "ValueError"
            ELSE "return"

\* the values of rope_scaling a configuration file can hold
RopeScalingValues ==
    { NoDict("None"), NoDict("str"), NoDict("list") }
    \cup
    { PyDict(items) :
        items \in [ type : {Absent, PyNone, PyStr("linear"), PyStr("dynamic"), PyStr("yarn")},
                    factor : {Absent, PyNone, PyStr("2.0"), PyInt(2), PyFloat(1), PyFloat(2),
                              PyFloat(3), PyFloat(16), PyNaN, PyInf},
                    rope_type : {Absent, PyStr("llama3"), PyStr("linear")},
                    low_freq_factor : {Absent, PyFloat(2)} ] }

RopeInputs == [fn : {"_rope_scaling_validation"}, ran : {FALSE},
               rope_scaling : RopeScalingValues, outcome : {"none"}]

InitRope ==
    /\ arch \in Archs
    /\ weights = InitWeights(arch)
    /\ hooks = {}
    /\ handles = NoneHandles
    /\ inMasks = NoMasks
    /\ returned = <<>>
    /\ nextId = 1
    /\ ncalls = 0
    /\ lastOp = NoOp
    /\ fwd = NoFwd
    /\ est = NoEst
    /\ run = NoRun
    /\ libCall \in RopeInputs

\* config._rope_scaling_validation()
call_rope_scaling_validation ==
    /\ libCall.fn = "_rope_scaling_validation" /\ ~libCall.ran
    /\ libCall' = [libCall EXCEPT !.ran = TRUE,
                                  !.outcome = rope_scaling_validation(libCall.rope_scaling)]
    /\ UNCHANGED <<arch, weights, hooks, handles, inMasks, returned, nextId, ncalls, lastOp,
                   fwd, est, run>>

NextRope == call_rope_scaling_validation

SpecRope == InitRope /\ [][NextRope]_vars

\* a float greater than 1
IsFloatAboveOne(x) == x.t = "float" /\ (x.s = "inf" \/ (x.s = "finite" /\ x.n > 2))

\* a dict of exactly the two fields type and factor, type linear or dynamic,
\* factor a float greater than 1
IsClassicRopeScaling(rs) ==
    /\ rs.kind = "dict"
    /\ {k \in RopeKeys : rs.items[k] # Absent} = {"type", "factor"}
    /\ rs.items["type"] \in {PyStr("linear"), PyStr("dynamic")}
    /\ IsFloatAboveOne(rs.items["factor"])

\* C26: _rope_scaling_validation returns for None and for every dict whose
\* rope_type is "llama3"; for every other value it raises ValueError unless
\* the value is a dict of exactly two fields with type linear or dynamic and
\* a float factor greater than 1.
C26_RopeScalingValidation ==
    (libCall.fn = "_rope_scaling_validation" /\ libCall.ran)
        => LET rs == libCall.rope_scaling
           IN IF rs.kind = "None" THEN libCall.outcome = "return"
              ELSE IF rs.kind = "dict" /\ rs.items["rope_type"] = PyStr("llama3")
              THEN libCall.outcome = "return"
              ELSE libCall.outcome = "ValueError" <=> ~IsClassicRopeScaling(rs)

====
